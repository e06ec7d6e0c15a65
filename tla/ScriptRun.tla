------------------------------- MODULE ScriptRun -------------------------------
(***************************************************************************)
(* One run of a job, from the log line that announces it to the commit of  *)
(* its result: get_executor picks the executor by the job's mode.          *)
(* RunEngine takes all of this as the one step Execute.                    *)
(***************************************************************************)
EXTENDS VenvRun, DockerRun

vars == <<outputVars, venvVars, dockerVars>>

Init == OutputInit /\ VenvInit /\ DockerInit

Deliver == Start \/ Persist \/ Close \/ \E l \in Listener : Send(l)

VenvStep   == VenvNext /\ UNCHANGED dockerVars
DockerStep == DockerNext /\ UNCHANGED venvVars
OutputStep ==
  /\ Deliver \/ \E l \in Listener : Register(l) \/ Drop(l) \/ Unregister(l)
  /\ UNCHANGED <<venvVars, dockerVars>>

Next == VenvStep \/ DockerStep \/ OutputStep

Run == \/ (Deliver /\ UNCHANGED <<venvVars, dockerVars>>)
       \/ (VenvRuns /\ UNCHANGED dockerVars)
       \/ (DockerRuns /\ UNCHANGED venvVars)

\* The event loop resumes what can go on, timers fire, and a send to a browser
\* ends: uvicorn drops a connection that answers no ping.  Whether the daemon
\* answers, and a program comes to its end, is for the properties to assume.
LoopFairness ==
  /\ WF_vars(Run)
  /\ WF_vars(Expire /\ UNCHANGED dockerVars)
  /\ \A s \in Stream : WF_vars(Drain(s) /\ UNCHANGED dockerVars)

Spec == Init /\ [][Next]_vars /\ LoopFairness

--------------------------------------------------------------------------------
\* The state of a run, of its executor and of the listeners.
TypeOK ==
  /\ OutputTypeOK /\ VenvTypeOK /\ DockerTypeOK
  /\ stage \in VenvExecuting \cup DockerExecuting \cup Outcome \cup Cleanup \cup Ending

\* The log is faithful to what the programs of the run printed: see StreamsLogged
\* and ChunksLogged.
LogFaithful == StreamsLogged /\ ChunksLogged

ProgramWork ==
  \/ ChildWork /\ UNCHANGED dockerVars
  \/ ContainerWork /\ UNCHANGED venvVars

\* A run whose programs print what they have to and exit, and whose requests the
\* Docker daemon answers one way or the other, comes to its end, and its row gets a
\* result unless the cleanup was cut short.  An exception is a line too long, which
\* cuts a stream off: its writer may then block on the full pipe, with no timer
\* running yet.
RunEnds ==
  /\ WF_vars(ProgramWork)
  /\ WF_vars(DaemonAnswers /\ UNCHANGED venvVars)
  /\ [](\A i \in DOMAIN child.program : child.program[i].fits)
  => <>(stage \in {"done", "aborted"})

\* The timeout is a hard wall-clock limit: the script of a job that has one is
\* not left running for ever.
HardLimit == child.kind = "script" /\ child.alive /\ job.timeout ~> ~child.alive \/ Over

\* The log of a running job is streamed live: a browser that keeps trying to connect
\* to the log channel of a job is connected, however long its script runs.
Connects ==
  (\A l \in Listener : WF_vars(Register(l) /\ UNCHANGED <<venvVars, dockerVars>>))
    => \A l \in Listener : <>(session[l] # "new")
================================================================================
