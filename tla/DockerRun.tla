------------------------------- MODULE DockerRun -------------------------------
(***************************************************************************)
(* The executor of a Docker job: DockerExecutor of services/executor.py    *)
(* against a Docker daemon, which owns the image and the container.        *)
(*                                                                         *)
(* Every request to the daemon runs in a thread while the event loop goes  *)
(* on, except one: the chunks of the container's output are read on the    *)
(* event loop itself.  A thread cannot be cancelled: when the coroutine    *)
(* that awaits it is, the request is carried out all the same.             *)
(***************************************************************************)
EXTENDS RunOutput

VARIABLES
  client,    \* whether self._client is connected
  context,   \* the build context: "none", "there" or "stuck", what of it cannot be
             \* removed; self._build_context is set with it
  image,     \* the daemon: whether it has the image of the run
  container, \* the daemon: "none", "created", "running" or "exited"
  printed,   \* the chunks the container has printed
  known,     \* whether self._container_id is set
  orphans,   \* the requests in threads that nobody awaits any more
  missed     \* history: the requests that failed or were cut off

daemonVars == <<image, container>>
dockerVars == <<client, context, daemonVars, printed, known, orphans, missed>>

Request == {"build", "run", "logs", "wait", "get", "remove", "rmi"}

\* The request awaited at a stage, once the line before it is broadcast.
AwaitedAt == [building |-> "build", starting |-> "run", attaching |-> "logs",
              waiting |-> "wait", getting |-> "get", removing |-> "remove",
              untagging |-> "rmi"]
Awaited == IF Quiet /\ stage \in DOMAIN AwaitedAt THEN {AwaitedAt[stage]} ELSE {}

DockerExecuting == {"prepare", "connect", "building", "rejected", "starting", "timed",
                    "attaching", "stream", "waiting"}

DockerInit ==
  /\ client = FALSE /\ context = "none" /\ image = FALSE
  /\ container = "none" /\ printed = 0 /\ known = FALSE
  /\ orphans = {} /\ missed = {}

--------------------------------------------------------------------------------
(* The daemon.                                                             *)

\* What a request does.  A container is created and then started.  The removal of a
\* container is forced; an image in use by a running container stays.
Performs(request) ==
  \/ request = "build"  /\ image' = TRUE /\ UNCHANGED container
  \/ request = "run"    /\ image /\ container' \in {"created", "running"} /\ UNCHANGED image
  \/ request = "remove" /\ container' = "none" /\ UNCHANGED image
  \/ request = "rmi"    /\ image' = (image /\ container = "running") /\ UNCHANGED container
  \/ request \in {"logs", "wait", "get"} /\ UNCHANGED daemonVars

\* It is answered with an error, or not at all: it may have been performed.
Fails(request) ==
  /\ Performs(request) \/ UNCHANGED daemonVars
  /\ missed' = missed \cup {request}

\* A request nobody awaits any more is performed, or fails.
Late(request) ==
  /\ request \in orphans
  /\ orphans' = orphans \ {request}
  /\ Performs(request) \/ UNCHANGED daemonVars
  /\ UNCHANGED <<outputVars, client, context, printed, known, missed>>

\* The container is not followed any more when the run is over.
ContainerPrints ==
  /\ ~Over
  /\ container = "running" /\ printed < Len(job.script)
  /\ printed' = printed + 1
  /\ UNCHANGED <<outputVars, client, context, daemonVars, known, orphans, missed>>

ContainerExits ==
  /\ ~Over
  /\ container = "running"
  /\ container' = "exited"
  /\ UNCHANGED <<outputVars, client, context, image, printed, known, orphans, missed>>

\* A container that does its work prints all it has to, and exits.
ContainerWork == ContainerPrints \/ (printed = Len(job.script) /\ ContainerExits)

--------------------------------------------------------------------------------
(* The executor.                                                           *)

\* An exception in the try block of _execute is reported and raised again.
Raise == Yield(Notice("error"), "failed")

\* mkdtemp stands before the try block: its failure is not reported.
Prepare ==
  /\ stage = "prepare" /\ Quiet
  /\ \/ Silently("failed") /\ UNCHANGED context
     \/ Raise /\ context' = "there"
     \/ Yield(Notice("building"), "connect") /\ context' = "there"
  /\ UNCHANGED <<client, daemonVars, printed, known, orphans, missed>>

Connect ==
  /\ stage = "connect" /\ Quiet
  /\ \/ client' = TRUE /\ Silently("building")
     \/ Raise /\ UNCHANGED client
  /\ UNCHANGED <<context, daemonVars, printed, known, orphans, missed>>

Build ==
  /\ stage = "building" /\ Quiet
  /\ \/ Performs("build") /\ Yield(Notice("built"), "starting") /\ UNCHANGED missed
     \/ Fails("build") /\ Yield(Notice("build failed"), "rejected")
  /\ UNCHANGED <<client, context, printed, known, orphans>>

Rejected == stage = "rejected" /\ Quiet /\ Raise /\ UNCHANGED dockerVars

\* containers.run, detached.  If the start of the created container fails, or the
\* answer is lost, its id is not known.
StartContainer ==
  /\ stage = "starting" /\ Quiet
  /\ \/ /\ Performs("run") /\ container' = "running" /\ UNCHANGED missed
        /\ known' = TRUE
        /\ Yield(Notice("container"), IF job.timeout THEN "timed" ELSE "attaching")
     \/ Fails("run") /\ Raise /\ UNCHANGED known
  /\ UNCHANGED <<client, context, printed, orphans>>

\* asyncio.timeout takes no generator: with a timeout the run ends in a TypeError.
Timed == stage = "timed" /\ Quiet /\ Raise /\ UNCHANGED dockerVars

Attach ==
  /\ stage = "attaching" /\ Quiet
  /\ \/ Silently("stream") /\ UNCHANGED missed
     \/ Fails("logs") /\ Raise
  /\ UNCHANGED <<client, context, daemonVars, printed, known, orphans>>

\* The places of the container's chunks in the log.
Chunks == {i \in DOMAIN log : log[i].kind = "container"}
Chunk(n) == [kind |-> "container", stream |-> "OUT", n |-> n]

\* One turn of the loop over log_stream.
ReadChunk ==
  /\ stage = "stream" /\ Quiet /\ Cardinality(Chunks) < printed
  /\ Yield(Chunk(Cardinality(Chunks) + 1), "stream")
  /\ UNCHANGED dockerVars

StreamEnds ==
  /\ stage = "stream" /\ Quiet
  /\ container = "exited" /\ Cardinality(Chunks) = printed
  /\ Silently("waiting")
  /\ UNCHANGED dockerVars

StreamBreaks ==
  /\ stage = "stream" /\ Quiet
  /\ Raise
  /\ missed' = missed \cup {"logs"}
  /\ UNCHANGED <<client, context, daemonVars, printed, known, orphans>>

WaitContainer ==
  /\ stage = "waiting" /\ Quiet
  /\ \/ container = "exited" /\ Yield(Notice("exit"), "success") /\ UNCHANGED missed
     \/ Fails("wait") /\ Raise
  /\ UNCHANGED <<client, context, daemonVars, printed, known, orphans>>

--------------------------------------------------------------------------------
(* cleanup, at the beginning of the finally block.                         *)

EndDocker == job.mode = "docker" /\ Conclude("clean") /\ UNCHANGED dockerVars

\* The client is needed first, and its exception leaves cleanup and _run_job_inner.
BeginCleanup ==
  /\ stage = "clean"
  /\ \/ client' = TRUE /\ Silently(IF known THEN "getting" ELSE "untagging")
     \/ ~client /\ Silently("aborted") /\ UNCHANGED client
  /\ UNCHANGED <<context, daemonVars, printed, known, orphans, missed>>

GetContainer ==
  /\ stage = "getting"
  /\ \/ Performs("get") /\ Silently("removing") /\ UNCHANGED missed
     \/ Fails("get") /\ Silently("untagging")
  /\ UNCHANGED <<client, context, printed, known, orphans>>

\* Mutant of RemoveContainer: not forced, the removal of a running container is refused.
RemoveContainerUnforced ==
  /\ stage = "removing"
  /\ \/ container # "running" /\ Performs("remove") /\ UNCHANGED missed
     \/ container = "running" /\ UNCHANGED <<daemonVars, missed>>
     \/ Fails("remove")
  /\ Silently("untagging")
  /\ UNCHANGED <<client, context, printed, known, orphans>>

RemoveContainer ==
  /\ stage = "removing"
  /\ \/ Performs("remove") /\ UNCHANGED missed
     \/ Fails("remove")
  /\ Silently("untagging")
  /\ UNCHANGED <<client, context, printed, known, orphans>>

\* Then the build context, whatever became of the image, with rmtree, which ignores
\* errors.
RemoveImage ==
  /\ stage = "untagging"
  /\ \/ Performs("rmi") /\ UNCHANGED missed
     \/ Fails("rmi")
  /\ context' \in IF context = "there" THEN {"none", "stuck"} ELSE {context}
  /\ Silently("persist")
  /\ UNCHANGED <<client, printed, known, orphans>>

\* A request under way goes on without the run; a second one ends the cleanup itself.
CancelDocker ==
  /\ job.mode = "docker"
  /\ \/ stage = "start" \/ Awaited # {}
     \/ ~Quiet /\ stage \in DockerExecuting \cup Outcome
  /\ CutOff(IF stage \in Cleanup THEN "aborted" ELSE "clean")
  /\ orphans' = orphans \cup Awaited
  /\ missed' = missed \cup Awaited
  /\ UNCHANGED <<client, context, daemonVars, printed, known>>

--------------------------------------------------------------------------------
\* What the event loop does for a Docker job, what it does once the daemon answers,
\* and what the code does not decide.
DockerRuns == \/ Prepare \/ Connect \/ Rejected \/ Timed \/ ReadChunk \/ StreamEnds
              \/ EndDocker \/ BeginCleanup

DaemonAnswers == \/ Build \/ StartContainer \/ Attach \/ WaitContainer
                 \/ GetContainer \/ RemoveContainer \/ RemoveImage

DockerNext ==
  \/ DockerRuns \/ DaemonAnswers \/ StreamBreaks
  \/ CancelDocker \/ ContainerPrints \/ ContainerExits
  \/ \E request \in Request : Late(request)

DockerTypeOK ==
  /\ client \in BOOLEAN /\ context \in {"none", "there", "stuck"}
  /\ image \in BOOLEAN /\ known \in BOOLEAN
  /\ container \in {"none", "created", "running", "exited"}
  /\ printed \in 0 .. Len(job.script)
  /\ orphans \subseteq missed /\ missed \subseteq Request

\* The log has the chunks of the container in the order it printed them, and all of
\* them once the executor waits for its exit: in particular after every success.
ChunksLogged ==
  /\ \A i \in Chunks : log[i] = Chunk(Cardinality({k \in Chunks : k <= i}))
  /\ Cardinality(Chunks) <= printed
  /\ job.mode = "docker" /\ (stage = "waiting" \/ status = "success") =>
       Cardinality(Chunks) = printed

\* Whatever fails or is cancelled, and whenever: a run that is over leaves the build
\* context only if its cleanup was cut short or could not remove it; a container only
\* if the request that started it, or one of those that remove it, failed or was cut
\* off; its image only then, or if the same befell the build or the removal of the
\* image.
DaemonClean ==
  Over =>
    /\ context = "there" => stage = "aborted"
    /\ container # "none" => missed \cap {"run", "get", "remove"} # {}
    /\ image => missed \cap {"build", "run", "get", "remove", "rmi"} # {}
================================================================================
