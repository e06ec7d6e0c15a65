------------------------------- MODULE RunLedger -------------------------------
(***************************************************************************)
(* What the run_history table promises its readers (the history endpoint,  *)
(* the analytics service and the pipeline runner), independently of how a  *)
(* run is executed: rows are appended in the RUNNING state, a row is       *)
(* closed at most once, and a closed row never changes again.              *)
(*                                                                         *)
(* A closed row has a finish time.  Its status is a final one, or RUNNING  *)
(* for ever when it was closed while the process was being stopped.  The   *)
(* ledger does not promise that an open row is ever closed: a crash, a     *)
(* cancelled or a failing commit leaves it open for good.                  *)
(***************************************************************************)
EXTENDS Naturals, Sequences

CONSTANT Job

VARIABLES
  history,    \* the run_history table, indexed by row id
  up          \* whether the process is up and nothing stops it

FinalStatus == {"success", "failed", "timeout"}
RunStatus   == FinalStatus \cup {"running"}

Row == [job : Job, status : RunStatus, finished : BOOLEAN]

\* The row _run_job_inner inserts before it starts the executor.
NewRow(j) == [job |-> j, status |-> "running", finished |-> FALSE]

\* A row whose final status, if it has one, is not in the table yet.
IsOpen(row) == row.status = "running" /\ ~row.finished

Init == history = << >> /\ up = TRUE

Open(j) == history' = Append(history, NewRow(j)) /\ up' = up

Close(r, s) ==
  /\ IsOpen(history[r])
  /\ s = "running" => ~up
  /\ history' = [history EXCEPT ![r].status = s, ![r].finished = TRUE]
  /\ up' = up

StopOrStart == up' = ~up /\ UNCHANGED history

Next ==
  \/ \E j \in Job : Open(j)
  \/ \E r \in DOMAIN history, s \in RunStatus : Close(r, s)
  \/ StopOrStart

Spec == Init /\ [][Next]_<<history, up>>
================================================================================
