-------------------------------- MODULE VenvRun --------------------------------
(***************************************************************************)
(* The executor of a venv job: VenvExecutor and _interleave_streams of     *)
(* services/executor.py.  RunOutput has what becomes of the lines it       *)
(* yields, ScriptRun puts the two together.                                *)
(***************************************************************************)
EXTENDS RunOutput

CONSTANT PipeSize   \* lines a pipe and its StreamReader hold before the writer blocks

ASSUME PipeAssumption == PipeSize \in Nat \ {0}

VARIABLES
  child,     \* the subprocess: its program, how far it is, whether it lives
  open,      \* per stream: whether someone still holds its writing end
  pipe,      \* per stream: the lines written and not yet read
  reader,    \* per stream: "reading" or "gone", the task _drain
  queue,     \* the asyncio.Queue of _interleave_streams
  finished,  \* the sentinels taken from it
  venv,      \* the directory of the venv: "none", "partial", "ready" or "stuck"
  venvPath,  \* whether self._venv_path is set
  reqFile    \* the temporary requirements file: "none", "there" or "stuck"
             \* ("stuck": the file system refused to remove it, or to write it)

childVars == <<child, open, pipe>>
muxVars   == <<reader, queue, finished>>
fileVars  == <<venv, venvPath, reqFile>>
venvVars  == <<childVars, muxVars, fileVars>>

--------------------------------------------------------------------------------
Sentinel == [kind |-> "none"]

Streaming == {"pip", "script"}
VenvExecuting == {"start", "create", "created", "pip", "pipwait", "installed", "launch",
                  "script", "wait", "expired"}

NoChild == [kind |-> "script", program |-> << >>, at |-> 0, alive |-> FALSE]

VenvInit ==
  /\ child = NoChild
  /\ open = [s \in Stream |-> FALSE]
  /\ pipe = [s \in Stream |-> << >>]
  /\ reader = [s \in Stream |-> "gone"] /\ queue = << >> /\ finished = 0
  /\ venv = "none" /\ venvPath = FALSE /\ reqFile = "none"

--------------------------------------------------------------------------------
(* The subprocess.  What it does is not under the control of the code; it  *)
(* is not followed any more, nor are its readers, when the run is over.    *)

Written(s) == {n \in 1 .. child.at : child.program[n].stream = s}
Unwritten(s) == {n \in DOMAIN child.program : n > child.at /\ child.program[n].stream = s}

Write ==
  /\ ~Over
  /\ child.alive /\ child.at < Len(child.program)
  /\ LET n == child.at + 1
         s == child.program[n].stream
     IN  /\ Len(pipe[s]) < PipeSize
         /\ pipe' = [pipe EXCEPT ![s] = Append(@, [kind |-> child.kind, stream |-> s, n |-> n])]
         /\ child' = [child EXCEPT !.at = n]
  /\ UNCHANGED <<outputVars, muxVars, fileVars, open>>

\* It may close a stream long before it exits.
CloseStream(s) ==
  /\ ~Over
  /\ open[s]
  /\ child.alive => Unwritten(s) = {}
  /\ open' = [open EXCEPT ![s] = FALSE]
  /\ UNCHANGED <<outputVars, muxVars, fileVars, child, pipe>>

Exit ==
  /\ ~Over
  /\ child.alive
  /\ child' = [child EXCEPT !.alive = FALSE]
  /\ UNCHANGED <<outputVars, muxVars, fileVars, open, pipe>>

\* A subprocess that does not fail writes all it has to, and exits.
ChildWork == Write \/ (child.at = Len(child.program) /\ Exit) \/ \E s \in Stream : CloseStream(s)

--------------------------------------------------------------------------------
(* The multiplexer.                                                        *)

\* Mutant of Drain: the end of the stream returns before the sentinel.
DrainReturns(s) ==
  /\ ~Over
  /\ reader[s] = "reading"
  /\ LET readable == pipe[s] # << >>
         line == Head(pipe[s])
     IN  \/ /\ readable /\ child.program[line.n].fits
            /\ queue' = Append(queue, line)
            /\ UNCHANGED reader
         \/ /\ IF readable THEN ~child.program[line.n].fits ELSE ~open[s]
            /\ queue' = IF readable THEN Append(queue, Sentinel) ELSE queue
            /\ reader' = [reader EXCEPT ![s] = "gone"]
  /\ pipe' = [pipe EXCEPT ![s] = IF @ = << >> THEN @ ELSE Tail(@)]
  /\ UNCHANGED <<outputVars, child, open, finished, fileVars>>

\* One turn of _drain: a line goes to the queue; at the end of the stream, or at
\* the ValueError for a line too long, the sentinel does and the task ends.
Drain(s) ==
  /\ ~Over
  /\ reader[s] = "reading"
  /\ LET readable == pipe[s] # << >>
         line == Head(pipe[s])
     IN  \/ /\ readable /\ child.program[line.n].fits
            /\ queue' = Append(queue, line)
            /\ UNCHANGED reader
         \/ /\ IF readable THEN ~child.program[line.n].fits ELSE ~open[s]
            /\ queue' = Append(queue, Sentinel)
            /\ reader' = [reader EXCEPT ![s] = "gone"]
  /\ pipe' = [pipe EXCEPT ![s] = IF @ = << >> THEN @ ELSE Tail(@)]
  /\ UNCHANGED <<outputVars, child, open, finished, fileVars>>

AfterStreams == IF stage = "pip" THEN "pipwait" ELSE "wait"

\* What is yielded for a line.  _install_requirements takes the tag off with
\* lstrip('[OUT] ') and then lstrip('[ERR] '), which remove characters, not prefixes,
\* and so the beginning of what pip printed: of stdout any letters of both tags; of
\* stderr, where the first lstrip ends at the E of the tag, those of [ERR].
Relayed(line) ==
  IF line.kind = "pip"
    THEN LET first == child.program[line.n].first
         IN  [kind |-> "pip", stream |-> line.stream, n |-> line.n,
              cut |-> first = "ERR" \/ (first = "OUT" /\ line.stream = "OUT")]
    ELSE line

\* Mutant of Take: the loop ends with the first stream that ends.
TakeOneStream ==
  /\ stage \in Streaming /\ Quiet /\ queue # << >>
  /\ queue' = Tail(queue)
  /\ IF Head(queue) = Sentinel
     THEN finished' = finished + 1 /\ Silently(AfterStreams)
     ELSE Yield(Relayed(Head(queue)), stage) /\ UNCHANGED finished
  /\ UNCHANGED <<childVars, reader, fileVars>>

\* One turn of the loop of _interleave_streams.
Take ==
  /\ stage \in Streaming /\ Quiet /\ queue # << >>
  /\ queue' = Tail(queue)
  /\ IF Head(queue) = Sentinel
     THEN /\ finished' = finished + 1
          /\ Silently(IF finished + 1 = Cardinality(Stream) THEN AfterStreams ELSE stage)
     ELSE Yield(Relayed(Head(queue)), stage) /\ UNCHANGED finished
  /\ UNCHANGED <<childVars, reader, fileVars>>

--------------------------------------------------------------------------------
(* The executor.                                                           *)

\* _create_venv: the path is kept only if the venv is complete.
CreateVenv ==
  /\ stage = "create" /\ Quiet
  /\ \/ /\ venv' = "ready" /\ venvPath' = TRUE
        /\ Yield(Notice("ready"), "created")
     \/ /\ venv' \in {"none", "partial"} /\ UNCHANGED venvPath
        /\ Yield(Notice("error"), "failed")
  /\ UNCHANGED <<childVars, muxVars, reqFile>>

\* Mutant of Spawn: the count of ended streams is not reset.
SpawnKeepsCount(kind, program) ==
  /\ child' = [kind |-> kind, program |-> program, at |-> 0, alive |-> TRUE]
  /\ open' = [s \in Stream |-> TRUE]
  /\ pipe' = [s \in Stream |-> << >>]
  /\ reader' = [s \in Stream |-> "reading"]
  /\ queue' = << >> /\ UNCHANGED finished

\* create_subprocess_exec, and the fresh state of _interleave_streams.
Spawn(kind, program) ==
  /\ child' = [kind |-> kind, program |-> program, at |-> 0, alive |-> TRUE]
  /\ open' = [s \in Stream |-> TRUE]
  /\ pipe' = [s \in Stream |-> << >>]
  /\ reader' = [s \in Stream |-> "reading"]
  /\ queue' = << >> /\ finished' = 0

\* _install_requirements, if there are any; otherwise straight to the script.  The
\* file is written before the try block: if that fails it stays.
Install ==
  /\ stage = "created" /\ Quiet
  /\ IF job.packages
     THEN \/ Spawn("pip", job.installs) /\ reqFile' = "there" /\ Silently("pip")
          \/ /\ Yield(Notice("error"), "failed")
             /\ reqFile' \in {"none", "stuck"} /\ UNCHANGED <<childVars, muxVars>>
     ELSE Yield(Notice("running"), "launch") /\ UNCHANGED <<childVars, muxVars, reqFile>>
  /\ UNCHANGED <<venv, venvPath>>

\* proc.wait() returns when the process is dead and its pipes are disconnected.
Gone == ~child.alive /\ \A s \in Stream : ~open[s]

\* A failed pip is reported and the script runs all the same.
PipEnds ==
  /\ stage = "pipwait" /\ Gone
  /\ Silently("installed") \/ Yield(Notice("pip failed"), "installed")
  /\ UNCHANGED <<childVars, muxVars, fileVars>>

\* The finally block of _install_requirements; os.unlink may raise.
Installed ==
  /\ stage = "installed" /\ Quiet
  /\ \/ reqFile' = "none" /\ Yield(Notice("running"), "launch")
     \/ reqFile' = "stuck" /\ Yield(Notice("error"), "failed")
  /\ UNCHANGED <<childVars, muxVars, venv, venvPath>>

Launch ==
  /\ stage = "launch" /\ Quiet
  /\ \/ Spawn("script", job.script) /\ Silently("script")
     \/ Yield(Notice("error"), "failed") /\ UNCHANGED <<childVars, muxVars>>
  /\ UNCHANGED fileVars

Finish ==
  /\ stage = "wait" /\ Gone
  /\ Yield(Notice("exit"), "success")
  /\ UNCHANGED <<childVars, muxVars, fileVars>>

\* The timer of wait_for, which starts only here, fires ...
Expire ==
  /\ stage = "wait" /\ job.timeout
  /\ Silently("expired")
  /\ UNCHANGED <<childVars, muxVars, fileVars>>

\* Mutant of Kill: the run gives up on the process without killing it.
KillNot ==
  /\ stage = "expired"
  /\ Yield(Notice("timed out"), "timeout")
  /\ UNCHANGED <<childVars, muxVars, fileVars>>

\* ... and the handler of the TimeoutError kills the process.  If it exited in
\* between, proc.kill raises ProcessLookupError once its transport has let go.
Kill ==
  /\ stage = "expired"
  /\ \/ Yield(Notice("timed out"), "timeout")
     \/ Gone /\ Yield(Notice("error"), "failed")
  /\ child' = [child EXCEPT !.alive = FALSE]
  /\ UNCHANGED <<open, pipe, muxVars, fileVars>>

--------------------------------------------------------------------------------
(* The end of the run.                                                     *)

\* VenvExecutor.cleanup removes the directory it knows of, or, as rmtree ignores
\* errors, silently leaves what it cannot remove; it never awaits.
Cleaned(v) == IF venvPath THEN {"none", "stuck"} ELSE {v}

EndVenv ==
  /\ job.mode = "venv"
  /\ Conclude("persist")
  /\ venv' \in Cleaned(venv)
  /\ UNCHANGED <<childVars, muxVars, venvPath, reqFile>>

\* Nothing is killed.  A generator suspended at a yield is closed later, its finally
\* block with it.
CancelVenv ==
  /\ job.mode = "venv"
  /\ stage \in VenvExecuting \/ (stage \in Outcome /\ ~Quiet)
  /\ CutOff("persist")
  /\ \E v \in IF stage = "create" THEN {"none", "partial", "ready"} ELSE {venv} :
       venv' \in Cleaned(v)
  /\ reqFile' \in IF reqFile = "there" THEN {"there", "none", "stuck"} ELSE {reqFile}
  /\ UNCHANGED <<childVars, muxVars, venvPath>>

Finalize ==
  /\ Over /\ reqFile = "there"
  /\ reqFile' \in {"none", "stuck"}
  /\ UNCHANGED <<outputVars, childVars, muxVars, venv, venvPath>>

--------------------------------------------------------------------------------
\* What the event loop does for a venv job, and what it does not decide.
VenvRuns == \/ CreateVenv \/ Install \/ Take \/ PipEnds \/ Installed \/ Launch
            \/ Finish \/ Kill \/ EndVenv \/ Finalize

VenvNext ==
  \/ VenvRuns \/ Expire \/ CancelVenv \/ Write \/ Exit
  \/ \E s \in Stream : CloseStream(s) \/ Drain(s)

VenvTypeOK ==
  /\ child.kind \in Kind /\ child.program \in {job.script, job.installs, << >>}
  /\ child.at \in 0 .. Len(child.program) /\ child.alive \in BOOLEAN
  /\ open \in [Stream -> BOOLEAN]
  /\ \A s \in Stream : pipe[s] \in Seq(Line) /\ Len(pipe[s]) <= PipeSize
  /\ reader \in [Stream -> {"reading", "gone"}]
  /\ \A i \in DOMAIN queue : queue[i] = Sentinel \/ queue[i] \in Line
  /\ finished \in 0 .. Cardinality(Stream)
  /\ venv \in {"none", "partial", "ready", "stuck"} /\ venvPath \in BOOLEAN
  /\ reqFile \in {"none", "there", "stuck"}

\* The places in the log of the lines of a stream of the current subprocess.
Logged(s) == {i \in DOMAIN log : log[i].kind = child.kind /\ log[i].stream = s}

\* What of a stream can be read: the lines before the first that is too long.
Readable(s) ==
  {n \in Written(s) : \A m \in Written(s) : m <= n => child.program[m].fits}

\* The log has the lines of each stream in the order they were written, none
\* lost and none twice, and all that can be read once the executor waits for
\* the process: in particular in the log of every successful run.  The lines of
\* the script are whole; those of pip are not if they begin with a character of
\* the tags (see Relayed), and only then.
StreamsLogged ==
  \A s \in Stream :
    /\ \A i \in Logged(s) :
         /\ log[i].n \in Readable(s)
         /\ \A n \in Readable(s) :
              n < log[i].n <=> \E k \in Logged(s) : k < i /\ log[k].n = n
         /\ child.kind = "pip" /\ log[i].cut => child.program[log[i].n].first # "other"
    /\ (stage \in {"pipwait", "wait", "expired"} \/ status = "success") =>
         \A n \in Readable(s) : \E i \in Logged(s) : log[i].n = n

\* A run that got its result has left no process, and of the venv it knew of and the
\* requirements file only what the file system refused to remove or to write.
NothingLeft ==
  Over /\ status # "running" =>
    /\ ~child.alive
    /\ reqFile # "there"
    /\ venvPath => venv \in {"none", "stuck"}
================================================================================
