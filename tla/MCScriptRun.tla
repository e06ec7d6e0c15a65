------------------------------ MODULE MCScriptRun ------------------------------
(***************************************************************************)
(* ScriptRun for TLC, with jobs that show each rule of the executors.      *)
(***************************************************************************)
EXTENDS ScriptRun

Out  == [stream |-> "OUT", fits |-> TRUE, first |-> "other"]
Err  == [stream |-> "ERR", fits |-> TRUE, first |-> "other"]
Long == [stream |-> "OUT", fits |-> FALSE, first |-> "other"]

\* "ERROR: ..." on stderr, which loses its beginning, and "Using ..." on stdout, which
\* does, and on stderr, which does not.
Error == [stream |-> "ERR", fits |-> TRUE, first |-> "ERR"]
Using(s) == [stream |-> s, fits |-> TRUE, first |-> "OUT"]

Script(mode, timeout, packages, installs, script) ==
  [mode |-> mode, timeout |-> timeout, packages |-> packages,
   installs |-> installs, script |-> script]

\* Both streams, with more lines than a pipe holds, and a timeout; requirements;
\* a line too long between others, without a timeout.
VenvJobs ==
  { Script("venv", TRUE,  FALSE, << >>,   <<Out, Err, Out>>),
    Script("venv", FALSE, TRUE,  <<Error>>, <<Err>>),
    Script("venv", FALSE, TRUE,  <<Using("OUT"), Using("ERR")>>, << >>),
    Script("venv", FALSE, FALSE, << >>,   <<Out, Long, Out>>) }

\* A container whose output is streamed, and one with a timeout.
DockerJobs ==
  { Script("docker", FALSE, TRUE,  << >>, <<Out, Err>>),
    Script("docker", TRUE,  FALSE, << >>, <<Out>>) }

MCJobs == VenvJobs \cup DockerJobs
================================================================================
