------------------------------- MODULE RunOutput -------------------------------
(***************************************************************************)
(* What _run_job_inner of services/scheduler.py does with the generator of *)
(* an executor, whichever it is: each line it yields is logged and sent to *)
(* every WebSocket listener of the job in turn, and only then is it        *)
(* resumed, at the stage it had reached.  When it ends or raises, the      *)
(* executor cleans up, the row is committed and its end is broadcast.      *)
(*                                                                         *)
(* All of it runs on one event loop: nothing here can happen while the     *)
(* generator itself blocks.                                                *)
(***************************************************************************)
EXTENDS Integers, Sequences, FiniteSets

CONSTANTS
  Listener,     \* WebSocket connections, each used once
  Jobs,         \* the jobs that may run
  Cancellable   \* whether the server may shut down during the run

Mode == {"venv", "docker"}
Stream == {"OUT", "ERR"}
\* A line longer than the limit of StreamReader.readline does not fit.  It may begin
\* with a letter of the tag [OUT], or with one of [ERR], a bracket or a space.
Op == [stream : Stream, fits : BOOLEAN, first : {"OUT", "ERR", "other"}]

\* timeout and packages: whether the job has timeout_seconds and requirements;
\* what pip prints and what the script prints.
Job == [mode : Mode, timeout : BOOLEAN, packages : BOOLEAN,
        installs : Seq(Op), script : Seq(Op)]

ASSUME JobAssumption    == Jobs \subseteq Job
ASSUME CancelAssumption == Cancellable \in BOOLEAN

VARIABLES
  job,       \* the job that runs
  stage,     \* where the generator is resumed, then where _run_job_inner stands
  status,    \* run.status
  log,       \* log_buffer
  session,   \* per listener: "new", "joined", "dropped" (but registered) or "left"
  got,       \* per listener: the newest line it has or was too late for
  toSend     \* the listeners the broadcast under way has yet to serve

outputVars == <<job, stage, status, log, session, got, toSend>>

\* The n-th line a program prints, or a notice of the executor itself.
Kind == {"pip", "script", "container"}
Line == [kind : Kind, stream : Stream, n : Nat]
Notice(text) == [kind |-> "notice", text |-> text]

Outcome == {"success", "failed", "timeout"}
\* The cleanup of DockerExecutor awaits, that of VenvExecutor does not.
Cleanup == {"clean", "getting", "removing", "untagging"}
\* "aborted": the cleanup raised, and the row is not committed.
Ending == {"persist", "closing", "done", "aborted"}
Over   == stage \in Ending

OutputInit ==
  /\ job \in Jobs
  /\ stage = "start" /\ status = "running" /\ log = << >>
  /\ session = [l \in Listener |-> "new"]
  /\ got     = [l \in Listener |-> 0]
  /\ toSend  = {}

--------------------------------------------------------------------------------
(* The log channel of the job.                                             *)

Registered == {l \in Listener : session[l] \in {"joined", "dropped"}}

\* What _broadcast_to_channel has been called with; the last message of a run is
\* broadcast but not logged.
Sent == IF stage \in {"closing", "done"} THEN Append(log, Notice("finished")) ELSE log

\* The generator runs, as no broadcast is under way.
Quiet == toSend = {}

\* The one stage at which it waits without giving way to the event loop.
LoopBlocked == stage = "stream" /\ Quiet

Register(l) ==
  /\ ~LoopBlocked /\ session[l] = "new"
  /\ session' = [session EXCEPT ![l] = "joined"]
  /\ got' = [got EXCEPT ![l] = Len(Sent)]
  /\ UNCHANGED <<job, stage, status, log, toSend>>

\* The browser is gone; the handler has not noticed yet.
Drop(l) ==
  /\ session[l] = "joined"
  /\ session' = [session EXCEPT ![l] = "dropped"]
  /\ got' = [got EXCEPT ![l] = 0]
  /\ UNCHANGED <<job, stage, status, log, toSend>>

Unregister(l) ==
  /\ ~LoopBlocked /\ session[l] = "dropped"
  /\ session' = [session EXCEPT ![l] = "left"]
  /\ UNCHANGED <<job, stage, status, log, got, toSend>>

\* Mutant of Send: the exception of a dropped listener ends the broadcast.
SendOrAbort(l) ==
  /\ l \in toSend
  /\ toSend' = IF session[l] = "joined" THEN toSend \ {l} ELSE {}
  /\ got' = [got EXCEPT ![l] = IF session[l] = "joined" THEN Len(Sent) ELSE @]
  /\ UNCHANGED <<job, stage, status, log, session>>

\* One turn of the loop of _broadcast_to_channel, over the listeners there were
\* when it began; a send to a dropped listener fails and is swallowed.
Send(l) ==
  /\ l \in toSend
  /\ toSend' = toSend \ {l}
  /\ got' = [got EXCEPT ![l] = IF session[l] = "joined" THEN Len(Sent) ELSE @]
  /\ UNCHANGED <<job, stage, status, log, session>>

--------------------------------------------------------------------------------
(* The generator, as the executors use it, and the end of the run.         *)

\* It yields a line and will go on at the given stage.
Yield(line, next) ==
  /\ log' = Append(log, line)
  /\ toSend' = Registered
  /\ stage' = next
  /\ UNCHANGED <<job, status, session, got>>

Silently(next) == stage' = next /\ UNCHANGED <<job, status, log, session, got, toSend>>

Start ==
  /\ stage = "start"
  /\ Yield(Notice("started"), IF job.mode = "venv" THEN "create" ELSE "prepare")

\* The generator has ended or raised; the finally block goes on at the given stage.
Conclude(next) ==
  /\ stage \in Outcome /\ Quiet
  /\ status' = stage
  /\ stage' = next
  /\ UNCHANGED <<job, log, session, got, toSend>>

\* CancelledError at an await: no except clause takes it, the finally block does.
CutOff(next) ==
  /\ Cancellable
  /\ stage' = next /\ toSend' = {}
  /\ UNCHANGED <<job, status, log, session, got>>

Persist ==
  /\ stage = "persist"
  /\ stage' = "closing" /\ toSend' = Registered
  /\ UNCHANGED <<job, status, log, session, got>>

Close == stage = "closing" /\ Quiet /\ Silently("done")

--------------------------------------------------------------------------------
OutputTypeOK ==
  /\ job \in Jobs
  /\ status \in Outcome \cup {"running"}
  /\ session \in [Listener -> {"new", "joined", "dropped", "left"}]
  /\ got \in [Listener -> 0 .. Len(Sent)]
  /\ toSend \subseteq Listener

\* A listener gets every line sent since it registered, in order, whatever the
\* other listeners do: it is never more than the line under way behind.  Only a
\* shutdown in the middle of a broadcast keeps a line from those not yet served.
ListenersFollow ==
  (Over \/ stage \in Cleanup => status # "running") => \A l \in Listener :
    session[l] = "joined" => got[l] = Len(Sent) - (IF l \in toSend THEN 1 ELSE 0)
================================================================================
