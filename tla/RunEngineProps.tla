----------------------------- MODULE RunEngineProps -----------------------------
(***************************************************************************)
(* What the execution engine promises.                                     *)
(***************************************************************************)
EXTENDS RunEngine

TypeOK ==
  /\ history   \in Seq(Ledger!Row)
  /\ status    \in [Job -> JobStatus]
  /\ pc        \in [Task -> Stage]
  /\ jobOf     \in [Task -> Job \cup {NoJob}]
  /\ origin    \in [Task -> Origin]
  /\ runOf     \in [Task -> Nat]
  /\ outcome   \in [Task -> Ledger!RunStatus]
  /\ permits   \in Nat
  /\ waiters   \in Seq(Task)
  /\ cancelled \in SUBSET Task
  /\ phase     \in Phase
  /\ stops     \in Nat

\* No permit is lost or granted twice, whatever order tasks finish, fail or are
\* cancelled in (scheduler.py, _execute_job), and none is free while a task waits.
SlotAccounting ==
  /\ permits + Cardinality(Holders) = MaxConcurrent
  /\ waiters # << >> => permits = 0

\* The queue of the semaphore holds exactly the waiting tasks, each once.
QueueExact ==
  /\ \A i, k \in DOMAIN waiters : waiters[i] = waiters[k] => i = k
  /\ \A t \in Task : pc[t] = "waiting" <=> \E i \in DOMAIN waiters : waiters[i] = t

\* A task that is executing owns one open row of its own job, and no two tasks
\* write the same row: the result _run_job_inner commits is its own.
Owning == {"exec", "cleanup", "persist"}

OwnRow ==
  \A t \in Task :
    /\ runOf[t] # 0 => runOf[t] \in DOMAIN history
    /\ pc[t] \in Owning =>
         /\ runOf[t] \in DOMAIN history
         /\ history[runOf[t]].job = jobOf[t]
         /\ Ledger!IsOpen(history[runOf[t]])
         /\ \A u \in Task : runOf[u] = runOf[t] => u = t

\* What a task has of its own at each stage: an idle slot is blank, a live one has
\* a job and an origin, only a task that went through the insert has a row, and
\* a pipeline node never meets the semaphore.
StageShape ==
  \A t \in Task :
    /\ pc[t] = "idle" => jobOf[t] = NoJob /\ origin[t] = "none"
    /\ pc[t] # "idle" => jobOf[t] \in Job /\ origin[t] # "none"
    /\ pc[t] \notin Owning \cup {"alert"} => runOf[t] = 0
    /\ pc[t] \in {"created", "waiting"} => origin[t] # "pipeline"

\* What stopping leaves of the tasks: none is cancelled while the process is up, none
\* lives while it is down, and a run goes on to its commit without a final status
\* only if the process is being stopped.
StopShape ==
  /\ phase = "up" => cancelled = {}
  /\ phase = "down" => cancelled = {} /\ Live = {}
  /\ \A t \in Task :
       pc[t] \in {"cleanup", "persist"} /\ outcome[t] = "running" => phase # "up"

\* Two executions of one job overlap only if one of them was asked for by a
\* request or a pipeline: scheduled fires of a job never overlap.
NoScheduledOverlap ==
  \A t, u \in Task :
    /\ t # u /\ jobOf[t] = jobOf[u]
    /\ pc[t] \in Owning /\ pc[u] \in Owning
    => origin[t] # "schedule" \/ origin[u] # "schedule"

\* Every open row belongs to a task that will close it, so a row shown as RUNNING is
\* running (scheduler.py:115, "run one job and persist the result").  Holds until
\* the process is stopped, in a venv-only deployment whose database never fails.
OpenRowHasTask ==
  \A r \in DOMAIN history :
    Ledger!IsOpen(history[r]) => stops > 0 \/ \E t \in Task : runOf[t] = r

\* The number of jobs that execute at one time never exceeds MAX_CONCURRENT_JOBS
\* (.env.example, "Maximum number of jobs that can execute simultaneously").
\* Violated: pipeline_runner.py:194 calls _run_job_inner without the semaphore, so
\* two pipeline nodes execute at once under a limit of one.
ExecutionLimit == Cardinality({t \in Task : pc[t] \in Owning}) <= MaxConcurrent

\* The engine implements the ledger: rows are only appended, closed at most once,
\* closed as RUNNING by a shutdown only, and never changed afterwards.  The commits
\* of scheduler.py:135-142 and 181-185 check none of it: they write whatever row the
\* task holds with whatever status it has in memory.
ImplementsLedger == Ledger!Spec

\* Every task that waits for a permit gets one or is cancelled, if every script
\* ends (scheduler.py:117, "a semaphore to prevent resource exhaustion").
QueueServed == ScriptsEnd => \A t \in Task : pc[t] = "waiting" ~> pc[t] # "waiting"

\* Every row that is inserted gets a final status, if every script ends and the
\* process is not stopped.
RunPersisted ==
  ScriptsEnd => \A r \in 1 .. MaxRuns :
    r \in DOMAIN history
      ~> stops > 0 \/ (r \in DOMAIN history /\ history[r].status \in Ledger!FinalStatus)

\* A process that is asked to stop does stop, even in the middle of scripts that
\* never end: cancellation reaches every await a task can be at.
StopCompletes == phase = "stopping" ~> phase = "down"
================================================================================
