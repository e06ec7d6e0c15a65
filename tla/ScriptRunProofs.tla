---------------------------- MODULE ScriptRunProofs ----------------------------
(***************************************************************************)
(* The safety of a run of a script, for any jobs, listeners and sizes of a *)
(* pipe, whatever the subprocess, the daemon and a shutdown do.            *)
(***************************************************************************)
EXTENDS ScriptRun, TLAPS, FiniteSetTheorems, SequenceTheorems

\* The stages once the generator has ended.
Final == Cleanup \cup Ending

\* What the log consists of.
NoticeText == {"started", "ready", "error", "running", "pip failed", "exit", "timed out",
               "building", "built", "build failed", "container", "finished"}
PipLine    == [kind : Kind, stream : Stream, n : Nat, cut : BOOLEAN]
LogLine    == Line \cup PipLine \cup {Notice(text) : text \in NoticeText}

\* The shapes that TypeOK leaves open.
Shapes ==
  /\ log \in Seq(LogLine)
  /\ queue \in Seq(Line \cup {Sentinel})
  /\ child \in [kind : Kind, program : Seq(Op), at : Nat, alive : BOOLEAN]
  /\ child.kind \in {"pip", "script"}
  /\ open \in [Stream -> BOOLEAN]
  /\ pipe \in [Stream -> Seq(Line)]
  /\ reader \in [Stream -> {"reading", "gone"}]

\* A job has one executor, and the state of the other one is untouched.
OneExecutor ==
  /\ stage \in VenvExecuting \ {"start"} => job.mode = "venv"
  /\ stage \in DockerExecuting \cup Cleanup \cup {"aborted"} => job.mode = "docker"
  /\ job.mode = "docker" => VenvInit
  /\ job.mode = "venv" => DockerInit

\* The result is in memory only when the generator has ended.
ResultLast == stage \notin Final => status = "running"

\* The stages at which no broadcast is under way, those that do not ask included.
Silent == {"start", "pipwait", "wait", "expired", "persist", "done", "aborted"} \cup Cleanup

Undisturbed ==
  /\ stage \in Silent => Quiet
  /\ \A l \in toSend : session[l] # "new"

\* The process of a venv job lives, and its requirements file is one that can be
\* removed, only where the run is still about them or was cut off.
ChildStages == {"pip", "pipwait", "script", "wait", "expired"}
FileStages  == {"pip", "pipwait", "installed"}

Remains ==
  /\ child.alive => stage \in ChildStages \/ (Over /\ status = "running")
  /\ reqFile = "there" => stage \in FileStages \/ (Over /\ status = "running")
  /\ Over /\ venvPath => venv \in {"none", "stuck"}

\* What of a Docker job the daemon has, and the requests that account for it.
Owed ==
  /\ stage \in {"building", "rejected", "starting", "timed", "attaching", "stream", "waiting"}
       => client
  /\ stage \in {"persist", "closing", "done"} => context # "there"
  /\ container # "none" /\ missed \cap {"run", "get", "remove"} = {} =>
       known /\ client /\ stage \notin Ending \cup {"untagging"}
  /\ image /\ missed \cap {"build", "run", "get", "remove", "rmi"} = {} =>
       client /\ stage \notin Ending

\* Where the output of a container is complete nothing can start it again.
Exited ==
  /\ "run" \in orphans => stage \in Final /\ status = "running"
  /\ stage \in {"waiting", "success"} \/ status = "success" => container # "running"

--------------------------------------------------------------------------------
(* The way of a line from the subprocess to the log.                       *)

InQueue(s) == {i \in DOMAIN queue : queue[i] # Sentinel /\ queue[i].stream = s}

OnLog(s, n) == \E i \in Logged(s) : log[i].n = n
OnQueue(s, n) == \E i \in InQueue(s) : queue[i].n = n
OnPipe(s, n) == \E i \in DOMAIN pipe[s] : pipe[s][i].n = n

\* The lines in each place belong to the process, and are in the order they were written.
PlaceLog(s) ==
  /\ \A i \in Logged(s) : log[i].n \in Readable(s)
  /\ \A i, k \in Logged(s) : i < k => log[i].n < log[k].n
  /\ \A i \in Logged(s) :
       child.kind = "pip" /\ log[i].cut => child.program[log[i].n].first # "other"
PlaceQueue(s) ==
  /\ \A i \in InQueue(s) : queue[i].kind = child.kind /\ queue[i].n \in Readable(s)
  /\ \A i, k \in InQueue(s) : i < k => queue[i].n < queue[k].n
PlacePipe(s) ==
  /\ \A i \in DOMAIN pipe[s] : pipe[s][i].kind = child.kind /\ pipe[s][i].stream = s
                                  /\ pipe[s][i].n \in Written(s)
  /\ \A i, k \in DOMAIN pipe[s] : i < k => pipe[s][i].n < pipe[s][k].n

\* The log is behind the queue, and the queue behind the pipe.
PlaceOrder(s) ==
  /\ \A i \in Logged(s), k \in InQueue(s) : log[i].n < queue[k].n
  /\ \A i \in Logged(s), k \in DOMAIN pipe[s] : log[i].n < pipe[s][k].n
  /\ \A i \in InQueue(s), k \in DOMAIN pipe[s] : queue[i].n < pipe[s][k].n

\* No line is lost: while the reader reads every line is somewhere; when it has gone,
\* those that can be read are past the pipe, and no more of them will be written.
Nowhere(s, n) == ~ OnLog(s, n) /\ ~ OnQueue(s, n) /\ ~ OnPipe(s, n)
Covered(s) ==
  /\ reader[s] = "reading" => \A n \in Written(s) : ~ Nowhere(s, n)
  /\ reader[s] = "gone" =>
       /\ \A n \in Readable(s) : OnLog(s, n) \/ OnQueue(s, n)
       /\ \/ \E n \in Written(s) : ~ child.program[n].fits
          \/ ~ child.alive \/ Unwritten(s) = {}
  /\ ~ open[s] => ~ child.alive \/ Unwritten(s) = {}

\* Each reader that has gone has left one sentinel, the last of them at the end.
Sentinels == {i \in DOMAIN queue : queue[i] = Sentinel}
Reading   == {s \in Stream : reader[s] = "reading"}
Counted ==
  /\ finished + Cardinality(Sentinels) + Cardinality(Reading) <= 2
  /\ stage \in Streaming =>
       /\ finished + Cardinality(Sentinels) + Cardinality(Reading) = 2
       /\ finished < 2
       /\ Reading = {} => queue # << >> /\ queue[Len(queue)] = Sentinel
  /\ stage \in {"pipwait", "wait", "expired"} => Reading = {}

\* A program's lines are in the log only from its start on.
Fresh ==
  /\ stage \in {"start", "create", "created"} =>
       \A i \in DOMAIN log : log[i].kind \notin {"pip", "script"}
  /\ stage \in {"start", "create", "created", "pip", "pipwait", "installed", "launch"} =>
       \A i \in DOMAIN log : log[i].kind # "script"
  /\ stage = "pip" => child.kind = "pip"

Complete ==
  stage \in {"pipwait", "wait", "expired", "success"} \/ status = "success" =>
    \A s \in Stream : \A n \in Readable(s) : OnLog(s, n)

Flow(s) == PlaceLog(s) /\ PlaceQueue(s) /\ PlacePipe(s) /\ PlaceOrder(s) /\ Covered(s)
Flows == \A s \in Stream : Flow(s)

\* The chunks of a container in the log, all of them also where its result is not yet known.
Chunked ==
  /\ \A i \in Chunks : log[i] = Chunk(Cardinality({k \in Chunks : k <= i}))
  /\ Cardinality(Chunks) <= printed
  /\ job.mode = "docker" /\ (stage \in {"waiting", "success"} \/ status = "success") =>
       Cardinality(Chunks) = printed

Base == TypeOK /\ Shapes /\ OneExecutor /\ ResultLast /\ Undisturbed
IndInv ==
  /\ Base /\ Remains /\ Owed /\ Exited
  /\ Flows /\ Counted /\ Fresh /\ Complete /\ Chunked /\ ListenersFollow

--------------------------------------------------------------------------------
(* Sequences.                                                              *)

LEMMA AppendFacts ==
  ASSUME NEW S, NEW s \in Seq(S), NEW e \in S
  PROVE  /\ Append(s, e) \in Seq(S)
         /\ Len(s) \in Nat /\ Len(Append(s, e)) = Len(s) + 1
         /\ DOMAIN Append(s, e) = 1 .. Len(s) + 1
         /\ DOMAIN s = 1 .. Len(s)
         /\ Append(s, e)[Len(s) + 1] = e
         /\ \A i \in 1 .. Len(s) : Append(s, e)[i] = s[i]
  OBVIOUS

LEMMA TailFacts ==
  ASSUME NEW S, NEW s \in Seq(S), s # << >>
  PROVE  /\ Tail(s) \in Seq(S) /\ Head(s) \in S /\ Head(s) = s[1]
         /\ Len(s) \in Nat \ {0} /\ Len(Tail(s)) = Len(s) - 1
         /\ DOMAIN s = 1 .. Len(s) /\ DOMAIN Tail(s) = 1 .. Len(s) - 1
         /\ \A i \in 1 .. Len(s) - 1 : Tail(s)[i] = s[i + 1]
  BY EmptySeq, LenProperties, HeadTailProperties

--------------------------------------------------------------------------------
(* Type correctness.                                                       *)

LEMMA JobShape == ASSUME TypeOK
  PROVE job \in Job /\ job.script \in Seq(Op) /\ job.installs \in Seq(Op)
        /\ job.mode \in Mode /\ job.timeout \in BOOLEAN /\ job.packages \in BOOLEAN
  BY JobAssumption DEF TypeOK, OutputTypeOK, Job

\* The messages a listener can have got are never fewer than they were.
LEMMA SentGrows ==
  ASSUME Shapes,
         stage \in {"closing", "done"} => stage' \in {"closing", "done"},
         UNCHANGED log \/ (stage' \notin {"closing", "done"} /\ \E e \in LogLine : log' = Append(log, e))
  PROVE  Len(Sent) \in Nat /\ Len(Sent') \in Nat /\ Len(Sent) <= Len(Sent')
<1>1. log \in Seq(LogLine) /\ Notice("finished") \in LogLine
  BY DEF Shapes, LogLine, NoticeText
<1>2. Append(log, Notice("finished")) \in Seq(LogLine) /\ Len(Append(log, Notice("finished"))) = Len(log) + 1
      /\ Len(log) \in Nat
  BY <1>1, AppendFacts
<1>3. CASE UNCHANGED log
  BY <1>2, <1>3 DEF Sent
<1>4. CASE stage' \notin {"closing", "done"} /\ \E e \in LogLine : log' = Append(log, e)
  <2>1. PICK e \in LogLine : log' = Append(log, e)
    BY <1>4
  <2>2. Len(log') = Len(log) + 1
    BY <1>1, <2>1, AppendFacts
  <2> QED BY <1>2, <1>4, <2>2 DEF Sent
<1> QED BY <1>3, <1>4

Stages == VenvExecuting \cup DockerExecuting \cup Outcome \cup Cleanup \cup Ending

\* What a step may do to the part of the state that RunOutput has.
Output(next) ==
  /\ stage' = next
  /\ UNCHANGED job
  /\ status' \in {status, stage}
  /\ toSend' \subseteq Listener
  /\ UNCHANGED <<session, got>>
  /\ UNCHANGED log \/ (next \notin {"closing", "done"} /\ \E e \in LogLine : log' = Append(log, e))

LEMMA OutputType ==
  ASSUME TypeOK, Shapes, NEW next \in Stages, Output(next),
         status' = stage => stage \in Outcome,
         stage \in {"closing", "done"} => next \in {"closing", "done"}
  PROVE  OutputTypeOK' /\ stage' \in Stages /\ log' \in Seq(LogLine)
<1>1. Len(Sent) \in Nat /\ Len(Sent') \in Nat /\ Len(Sent) <= Len(Sent')
  BY SentGrows DEF Output
<1>2. got' \in [Listener -> 0 .. Len(Sent')]
  BY <1>1 DEF TypeOK, OutputTypeOK, Output
<1>3. log' \in Seq(LogLine)
  <2>1. CASE UNCHANGED log
    BY <2>1 DEF Shapes
  <2>2. ASSUME NEW e \in LogLine, log' = Append(log, e) PROVE log' \in Seq(LogLine)
    BY <2>2, AppendFacts DEF Shapes
  <2> QED BY <2>1, <2>2 DEF Output
<1> QED
  BY <1>2, <1>3 DEF TypeOK, OutputTypeOK, Output
LEMMA YieldOutput ==
  ASSUME Shapes, NEW line \in LogLine, NEW next, next \notin {"closing", "done"},
         Yield(line, next)
  PROVE  Output(next) /\ status' = status /\ log' = Append(log, line)
  BY DEF Yield, Output, Registered

LEMMA SilentOutput ==
  ASSUME TypeOK, NEW next, Silently(next)
  PROVE  Output(next) /\ status' = status /\ log' = log
  BY DEF Silently, Output, TypeOK, OutputTypeOK

LEMMA NoticeLogged == \A text \in NoticeText : Notice(text) \in LogLine
  BY DEF LogLine

\* What is logged for a line has its kind, stream and place.
LEMMA RelayedFacts ==
  ASSUME NEW e \in Line
  PROVE  /\ Relayed(e) \in LogLine
         /\ Relayed(e).kind = e.kind /\ Relayed(e).stream = e.stream /\ Relayed(e).n = e.n
<1>1. CASE e.kind = "pip"
  <2> DEFINE first == child.program[e.n].first
             cut   == first = "ERR" \/ (first = "OUT" /\ e.stream = "OUT")
  <2>1. Relayed(e) = [kind |-> "pip", stream |-> e.stream, n |-> e.n, cut |-> cut]
    BY <1>1 DEF Relayed
  <2>2. cut \in BOOLEAN
    OBVIOUS
  <2> HIDE DEF cut
  <2> QED BY <1>1, <2>1, <2>2 DEF LogLine, PipLine, Line, Kind
<1>2. CASE e.kind # "pip"
  BY <1>2 DEF Relayed, LogLine
<1> QED BY <1>1, <1>2

\* Only a line that begins with a character of the tags is cut.
LEMMA CutFacts ==
  ASSUME NEW e \in Line, e.kind = "pip", Relayed(e).cut
  PROVE  child.program[e.n].first # "other"
<1> DEFINE first == child.program[e.n].first
           cut   == first = "ERR" \/ (first = "OUT" /\ e.stream = "OUT")
<1>1. Relayed(e) = [kind |-> "pip", stream |-> e.stream, n |-> e.n, cut |-> cut]
  BY DEF Relayed
<1>2. cut => first # "other"
  OBVIOUS
<1>3. Relayed(e).cut = cut
  <2> HIDE DEF cut
  <2> QED BY <1>1
<1> HIDE DEF cut, first
<1>4. first # "other"
  BY <1>2, <1>3
<1> QED BY <1>4 DEF first


LEMMA TwoStreams == IsFiniteSet(Stream) /\ Cardinality(Stream) = 2
<1>1. IsFiniteSet({"OUT"}) /\ Cardinality({"OUT"}) = 1
  BY FS_Singleton
<1>2. Stream = {"OUT"} \cup {"ERR"} /\ "ERR" \notin {"OUT"}
  BY DEF Stream
<1> QED BY <1>1, <1>2, FS_AddElement

\* The types, with those of the executor of a venv job apart.
ProgramOK ==
  child.program \in {job.script, job.installs, << >>} /\ child.at <= Len(child.program)
PipesOK == \A s \in Stream : Len(pipe[s]) <= PipeSize
FilesOK ==
  /\ venv \in {"none", "partial", "ready", "stuck"} /\ venvPath \in BOOLEAN
  /\ reqFile \in {"none", "there", "stuck"}

Parts ==
  /\ OutputTypeOK /\ stage \in Stages /\ DockerTypeOK /\ Shapes
  /\ ProgramOK /\ PipesOK /\ FilesOK /\ finished \in 0 .. 2

LEMMA PartsOfType == TypeOK /\ Shapes => Parts
  BY TwoStreams DEF TypeOK, VenvTypeOK, Parts, Stages, ProgramOK, PipesOK, FilesOK

LEMMA TypeOfParts == Parts => TypeOK /\ Shapes
<1> SUFFICES ASSUME Parts PROVE TypeOK /\ Shapes
  OBVIOUS
<1>1. \A i \in DOMAIN queue : queue[i] = Sentinel \/ queue[i] \in Line
  BY ElementOfSeq, LenProperties DEF Parts, Shapes
<1>2. child.at \in 0 .. Len(child.program) /\ child.alive \in BOOLEAN
  BY LenProperties DEF Parts, Shapes, ProgramOK
<1>3. VenvTypeOK
  BY <1>1, <1>2, TwoStreams DEF Parts, Shapes, VenvTypeOK, ProgramOK, PipesOK, FilesOK, Kind
<1> QED BY <1>3 DEF Parts, TypeOK, Stages

\* A step that leaves the subprocess and its multiplexer alone.
LEMMA PartsKept ==
  ASSUME TypeOK, Shapes, NEW next \in Stages, Output(next),
         status' = stage => stage \in Outcome,
         stage \in {"closing", "done"} => next \in {"closing", "done"},
         UNCHANGED <<child, open, pipe, reader, queue, finished>>,
         DockerTypeOK', FilesOK'
  PROVE  Parts'
<1>1. OutputTypeOK' /\ stage' \in Stages /\ log' \in Seq(LogLine) /\ UNCHANGED job
  BY OutputType DEF Output
<1>2. Parts
  BY PartsOfType
<1> QED BY <1>1, <1>2 DEF Parts, Shapes, ProgramOK, PipesOK
\* The first program of a subprocess and the fresh state of the multiplexer.
LEMMA SpawnType ==
  ASSUME TypeOK, NEW kind \in {"pip", "script"}, NEW program \in Seq(Op), Spawn(kind, program)
  PROVE  /\ child' \in [kind : Kind, program : Seq(Op), at : Nat, alive : BOOLEAN]
         /\ child'.kind = kind /\ child'.program = program /\ child'.at = 0
         /\ child'.alive
         /\ open' \in [Stream -> BOOLEAN] /\ pipe' \in [Stream -> Seq(Line)]
         /\ \A s \in Stream : pipe'[s] = << >> /\ open'[s] /\ reader'[s] = "reading"
         /\ reader' \in [Stream -> {"reading", "gone"}]
         /\ queue' = << >> /\ queue' \in Seq(Line \cup {Sentinel}) /\ finished' = 0
  BY EmptySeq DEF Spawn, Kind

\* The steps of the subprocess and of the multiplexer that leave RunOutput alone.
LEMMA MuxType ==
  ASSUME TypeOK, Shapes, UNCHANGED <<outputVars, dockerVars>>,
         UNCHANGED fileVars \/ FilesOK', Shapes', ProgramOK', PipesOK', finished' \in 0 .. 2
  PROVE  Parts'
<1>1. Parts
  BY PartsOfType
<1> QED BY <1>1 DEF Parts, outputVars, dockerVars, daemonVars, fileVars, FilesOK, OutputTypeOK,
                    DockerTypeOK, Sent

LEMMA WriteType ==
  ASSUME TypeOK, Shapes, Write, UNCHANGED dockerVars
  PROVE  Parts'
<1> DEFINE n == child.at + 1
           s == child.program[n].stream
           line == [kind |-> child.kind, stream |-> s, n |-> n]
<1>0. Parts
  BY PartsOfType
<1>1. /\ n \in Nat /\ n \in DOMAIN child.program /\ s \in Stream /\ n <= Len(child.program)
      /\ Len(pipe[s]) < PipeSize
      /\ pipe' = [pipe EXCEPT ![s] = Append(@, line)]
      /\ child' = [child EXCEPT !.at = n]
  <2>1. child.program \in Seq(Op) /\ child.at < Len(child.program) /\ child.at \in Nat
    BY DEF Write, Shapes
  <2>2. n \in DOMAIN child.program /\ n \in Nat /\ n <= Len(child.program)
    BY <2>1, LenProperties
  <2>3. child.program[n] \in Op
    BY <2>1, <2>2, LenProperties, ElementOfSeq
  <2> QED BY <2>2, <2>3 DEF Write, Op
<1>2. line \in Line
  BY <1>1 DEF Shapes, Line
<1>3. pipe[s] \in Seq(Line) /\ pipe \in [Stream -> Seq(Line)]
  BY <1>1 DEF Shapes
<1>4. Append(pipe[s], line) \in Seq(Line) /\ Len(Append(pipe[s], line)) = Len(pipe[s]) + 1
      /\ Len(pipe[s]) \in Nat
  BY <1>2, <1>3, AppendFacts
<1> HIDE DEF n, s, line
<1>5. pipe' \in [Stream -> Seq(Line)] /\ \A x \in Stream : x # s => pipe'[x] = pipe[x]
  BY <1>1, <1>3, <1>4
<1>6. PipesOK'
  BY <1>0, <1>1, <1>3, <1>4, <1>5, PipeAssumption DEF PipesOK, Parts
<1>7. child' \in [kind : Kind, program : Seq(Op), at : Nat, alive : BOOLEAN]
      /\ child'.kind = child.kind /\ child'.program = child.program /\ child'.at = n
  BY <1>1 DEF Shapes
<1>8. ProgramOK' /\ Shapes'
  BY <1>0, <1>1, <1>5, <1>7 DEF ProgramOK, Shapes, Write, outputVars, muxVars, Parts
<1> QED BY <1>0, <1>6, <1>8, MuxType DEF Write, muxVars, Parts

LEMMA ChildType ==
  ASSUME TypeOK, Shapes, UNCHANGED dockerVars,
         Exit \/ (\E s \in Stream : CloseStream(s))
  PROVE  Parts'
<1>0. Parts
  BY PartsOfType
<1>1. child' \in [kind : Kind, program : Seq(Op), at : Nat, alive : BOOLEAN]
      /\ child'.kind = child.kind /\ child'.program = child.program /\ child'.at = child.at
  BY DEF Shapes, Exit, CloseStream
<1>2. open' \in [Stream -> BOOLEAN]
  BY DEF Shapes, Exit, CloseStream
<1>3. Shapes' /\ ProgramOK' /\ PipesOK'
  BY <1>0, <1>1, <1>2 DEF Shapes, ProgramOK, PipesOK, Exit, CloseStream, outputVars, muxVars, Parts
<1> QED BY <1>0, <1>3, MuxType DEF Exit, CloseStream, Parts, muxVars, outputVars

LEMMA DrainType ==
  ASSUME TypeOK, Shapes, UNCHANGED dockerVars, NEW s \in Stream, Drain(s)
  PROVE  Parts'
<1>0. Parts
  BY PartsOfType
<1>1. pipe[s] \in Seq(Line) /\ queue \in Seq(Line \cup {Sentinel})
  BY DEF Shapes
<1>2. pipe' \in [Stream -> Seq(Line)] /\ PipesOK'
  <2>1. CASE pipe[s] = << >>
    <3>1. pipe' = pipe
      BY <2>1 DEF Drain, Shapes
    <3> QED BY <3>1, <1>0 DEF Parts, PipesOK, Shapes
  <2>2. CASE pipe[s] # << >>
    <3>1. pipe' = [pipe EXCEPT ![s] = Tail(pipe[s])]
      BY <2>2 DEF Drain, Shapes
    <3>2. Tail(pipe[s]) \in Seq(Line) /\ Len(pipe[s]) \in Nat /\ Len(Tail(pipe[s])) = Len(pipe[s]) - 1
      BY <1>1, <2>2, TailFacts
    <3>3. \A x \in Stream : x # s => pipe'[x] = pipe[x]
      BY <3>1 DEF Shapes
    <3>4. pipe' \in [Stream -> Seq(Line)] /\ pipe'[s] = Tail(pipe[s])
      BY <3>1, <3>2 DEF Shapes
    <3> QED BY <1>0, <3>2, <3>3, <3>4, PipeAssumption DEF PipesOK, Parts
  <2> QED BY <2>1, <2>2
<1>3. queue' \in Seq(Line \cup {Sentinel})
  <2>1. CASE queue' = Append(queue, Sentinel)
    BY <1>1, <2>1, AppendFacts
  <2>2. CASE pipe[s] # << >> /\ queue' = Append(queue, Head(pipe[s]))
    <3>1. Head(pipe[s]) \in Line
      BY <1>1, <2>2, TailFacts
    <3> QED BY <1>1, <2>2, <3>1, AppendFacts
  <2> QED BY <2>1, <2>2 DEF Drain
<1>4. reader' \in [Stream -> {"reading", "gone"}]
  BY DEF Drain, Shapes
<1>5. Shapes'
  BY <1>2, <1>3, <1>4 DEF Drain, Shapes, outputVars
<1>6. ProgramOK' /\ finished' \in 0 .. 2
  BY <1>0 DEF Drain, ProgramOK, outputVars, Parts
<1> QED BY <1>2, <1>5, <1>6, MuxType DEF Drain

LEMMA TakeType ==
  ASSUME TypeOK, Shapes, Counted, UNCHANGED dockerVars, Take
  PROVE  Parts'
<1>0. Parts
  BY PartsOfType
<1>1. /\ queue \in Seq(Line \cup {Sentinel}) /\ queue # << >>
      /\ queue' = Tail(queue) /\ UNCHANGED <<childVars, reader, fileVars>>
  BY DEF Shapes, Take
<1>2. queue' \in Seq(Line \cup {Sentinel}) /\ Head(queue) \in Line \cup {Sentinel}
  BY <1>1, TailFacts
<1>3. finished \in 0 .. 1 /\ finished' \in 0 .. 2 /\ stage \in Streaming
  BY <1>0 DEF Counted, Take, Parts
<1>4. \E next \in {"pipwait", "wait", "pip", "script"} : Output(next) /\ status' = status
  <2>1. CASE Head(queue) = Sentinel
    BY <2>1, SilentOutput DEF Take, AfterStreams, Streaming
  <2>2. CASE Head(queue) # Sentinel
    <3>1. Relayed(Head(queue)) \in LogLine
      BY <1>2, <2>2, RelayedFacts
    <3> QED BY <2>2, <3>1, YieldOutput DEF Take, Streaming
  <2> QED BY <2>1, <2>2
<1>5. OutputTypeOK' /\ stage' \in Stages /\ log' \in Seq(LogLine) /\ UNCHANGED job
  <2>1. PICK next \in {"pipwait", "wait", "pip", "script"} : Output(next) /\ status' = status
    BY <1>4
  <2>2. next \in Stages /\ next \notin {"closing", "done"}
    BY DEF Stages, VenvExecuting
  <2>3. stage \notin {"closing", "done"} /\ (status' = stage => stage \in Outcome)
    BY <1>0, <2>1 DEF Take, Streaming, Parts, OutputTypeOK, Outcome
  <2> QED BY <2>1, <2>2, <2>3, OutputType DEF Output
<1>6. Shapes'
  BY <1>1, <1>2, <1>5 DEF Shapes, childVars
<1> QED BY <1>0, <1>1, <1>3, <1>5, <1>6
        DEF Parts, ProgramOK, PipesOK, FilesOK, childVars, fileVars, DockerTypeOK, dockerVars, daemonVars
\* The stages the generator goes to, silently or with a line.
LEMMA StageNames ==
  /\ VenvExecuting \cup DockerExecuting \cup Outcome \cup Cleanup \cup {"persist", "aborted"} \subseteq Stages
  /\ \A x \in VenvExecuting \cup DockerExecuting \cup Outcome \cup Cleanup \cup {"persist", "aborted"} :
       x \notin {"closing", "done"}
  BY DEF Stages, VenvExecuting, DockerExecuting, Outcome, Cleanup, Ending

\* A step of the generator that says nothing or gives a notice.
Says(next) == Silently(next) \/ \E text \in NoticeText : Yield(Notice(text), next)

LEMMA SaysOutput ==
  ASSUME TypeOK, Shapes, NEW next \in VenvExecuting \cup DockerExecuting \cup Outcome \cup Cleanup \cup {"persist", "aborted"},
         Says(next)
  PROVE  /\ Output(next) /\ status' = status /\ next \in Stages
         /\ next \notin {"closing", "done"}
<1>1. next \in Stages /\ next \notin {"closing", "done"}
  BY StageNames
<1>2. CASE Silently(next)
  BY <1>1, <1>2, SilentOutput
<1>3. ASSUME NEW text \in NoticeText, Yield(Notice(text), next)
      PROVE  Output(next) /\ status' = status
  BY <1>1, <1>3, NoticeLogged, YieldOutput
<1> QED BY <1>1, <1>2, <1>3 DEF Says

\* Such a step, before the generator has ended or in the cleanup.
LEMMA SaysType ==
  ASSUME TypeOK, Shapes, NEW next \in VenvExecuting \cup DockerExecuting \cup Outcome \cup Cleanup \cup {"persist", "aborted"},
         Says(next), stage \notin Outcome \cup {"running", "closing", "done"}
  PROVE  OutputTypeOK' /\ stage' \in Stages /\ log' \in Seq(LogLine) /\ UNCHANGED job
<1>1. Output(next) /\ status' = status /\ next \in Stages
  BY SaysOutput
<1>2. status' # stage
  BY <1>1 DEF TypeOK, OutputTypeOK
<1> QED BY <1>1, <1>2, OutputType DEF Output

\* An executor that may start a subprocess, or says something without one.
LEMMA SpawnStepType ==
  ASSUME TypeOK, Shapes, UNCHANGED dockerVars, Install \/ Launch
  PROVE  Parts'
<1>0. Parts
  BY PartsOfType
<1> DEFINE kind == IF stage = "created" THEN "pip" ELSE "script"
           program == IF stage = "created" THEN job.installs ELSE job.script
<1>1. \E next \in VenvExecuting \cup Outcome : Says(next)
  BY DEF Install, Launch, Says, VenvExecuting, Outcome, NoticeText
<1>2. OutputTypeOK' /\ stage' \in Stages /\ log' \in Seq(LogLine) /\ UNCHANGED job
  <2>1. stage \notin Outcome \cup {"running", "closing", "done"}
    BY DEF Install, Launch, Outcome
  <2> QED BY <1>1, <2>1, SaysType
<1>3. Spawn(kind, program) \/ UNCHANGED <<childVars, muxVars>>
  BY DEF Install, Launch
<1>4. FilesOK'
  BY <1>0 DEF Install, Launch, FilesOK, Parts, fileVars
<1>5. CASE Spawn(kind, program)
  <2>1. kind \in {"pip", "script"} /\ program \in Seq(Op)
        /\ program \in {job.installs, job.script}
    BY JobShape
  <2> HIDE DEF kind, program
  <2>2. Shapes' /\ ProgramOK' /\ PipesOK' /\ finished' \in 0 .. 2
    <3>1. /\ child' \in [kind : Kind, program : Seq(Op), at : Nat, alive : BOOLEAN]
          /\ child'.kind = kind /\ child'.program = program /\ child'.at = 0
          /\ open' \in [Stream -> BOOLEAN] /\ pipe' \in [Stream -> Seq(Line)]
          /\ \A s \in Stream : pipe'[s] = << >>
          /\ reader' \in [Stream -> {"reading", "gone"}]
          /\ queue' \in Seq(Line \cup {Sentinel}) /\ finished' = 0
      BY <1>5, <2>1, SpawnType
    <3>2. Len(program) \in Nat
      BY <2>1, LenProperties
    <3> QED BY <1>2, <2>1, <3>1, <3>2, PipeAssumption DEF Shapes, ProgramOK, PipesOK
  <2> QED BY <1>0, <1>2, <1>4, <2>2 DEF Parts, DockerTypeOK, dockerVars, daemonVars
<1>6. CASE UNCHANGED <<childVars, muxVars>>
  BY <1>0, <1>2, <1>4, <1>6
     DEF Parts, Shapes, ProgramOK, PipesOK, childVars, muxVars, DockerTypeOK, dockerVars, daemonVars
<1> QED BY <1>3, <1>5, <1>6

LEMMA VenvStepType ==
  ASSUME TypeOK, Shapes, Counted, VenvNext, UNCHANGED dockerVars
  PROVE  Parts'
<1>0. Parts
  BY PartsOfType
<1> USE DEF childVars, muxVars, fileVars, dockerVars, daemonVars
<1>1. CASE CreateVenv \/ PipEnds \/ Installed \/ Finish \/ Expire
  <2>1. \E next \in VenvExecuting \cup Outcome : Says(next)
    BY <1>1 DEF CreateVenv, PipEnds, Installed, Finish, Expire, Says, VenvExecuting, Outcome, NoticeText
  <2>2. stage \notin Outcome \cup {"running", "closing", "done"}
    BY <1>1 DEF CreateVenv, PipEnds, Installed, Finish, Expire, Outcome
  <2>3. OutputTypeOK' /\ stage' \in Stages /\ log' \in Seq(LogLine) /\ UNCHANGED job
    BY <2>1, <2>2, SaysType
  <2>4. UNCHANGED <<child, open, pipe, reader, queue, finished>> /\ FilesOK'
    BY <1>0, <1>1 DEF CreateVenv, PipEnds, Installed, Finish, Expire, FilesOK, Parts
  <2> QED BY <1>0, <2>3, <2>4 DEF Parts, Shapes, ProgramOK, PipesOK, DockerTypeOK
<1>2. CASE Kill
  <2>1. \E next \in VenvExecuting \cup Outcome : Says(next)
    BY <1>2 DEF Kill, Says, Outcome, NoticeText
  <2>2. stage \notin Outcome \cup {"running", "closing", "done"}
    BY <1>2 DEF Kill, Outcome
  <2>3. OutputTypeOK' /\ stage' \in Stages /\ log' \in Seq(LogLine) /\ UNCHANGED job
    BY <2>1, <2>2, SaysType
  <2>4. UNCHANGED <<open, pipe, reader, queue, finished>> /\ FilesOK'
    BY <1>0, <1>2 DEF Kill, FilesOK, Parts
  <2>5. child' \in [kind : Kind, program : Seq(Op), at : Nat, alive : BOOLEAN]
        /\ child'.kind = child.kind /\ child'.program = child.program /\ child'.at = child.at
    BY <1>2 DEF Kill, Shapes
  <2> QED BY <1>0, <2>3, <2>4, <2>5 DEF Parts, Shapes, ProgramOK, PipesOK, DockerTypeOK
<1>3. CASE EndVenv
  <2>1. Output("persist") /\ status' = stage /\ stage \in Outcome
    BY <1>3 DEF EndVenv, Conclude, Output, TypeOK, OutputTypeOK
  <2>2. FilesOK' /\ UNCHANGED <<child, open, pipe, reader, queue, finished>>
    BY <1>0, <1>3 DEF EndVenv, Cleaned, FilesOK, Parts
  <2> QED BY <1>0, <2>1, <2>2, StageNames, PartsKept DEF Parts, DockerTypeOK, Output, Outcome
<1>4. CASE CancelVenv
  <2>1. Output("persist") /\ status' = status
    BY <1>4 DEF CancelVenv, CutOff, Output
  <2>2. FilesOK' /\ UNCHANGED <<child, open, pipe, reader, queue, finished>>
    BY <1>0, <1>4 DEF CancelVenv, Cleaned, FilesOK, Parts
  <2>3. stage \notin {"closing", "done"} /\ (status' = stage => stage \in Outcome)
    BY <1>0, <1>4, <2>1 DEF CancelVenv, VenvExecuting, Outcome, Parts, OutputTypeOK
  <2> QED BY <1>0, <2>1, <2>2, <2>3, StageNames, PartsKept DEF Parts, DockerTypeOK, Output
<1>5. CASE Finalize
  BY <1>0, <1>5, MuxType DEF Finalize, FilesOK, Parts, Shapes, ProgramOK, PipesOK, outputVars
<1> QED BY <1>1, <1>2, <1>3, <1>4, <1>5, SpawnStepType, WriteType, ChildType, DrainType, TakeType
        DEF VenvNext, VenvRuns
\* The requests to the daemon keep what it has in shape.
LEMMA DaemonType ==
  ASSUME DockerTypeOK, NEW request \in Request, Performs(request) \/ UNCHANGED daemonVars
  PROVE  image' \in BOOLEAN /\ container' \in {"none", "created", "running", "exited"}
  BY DEF DockerTypeOK, Performs, daemonVars

LEMMA AwaitedType == Awaited \subseteq Request
  BY DEF Awaited, AwaitedAt, Request

\* The places of chunks are finitely many.
LEMMA ChunksFinite ==
  ASSUME log \in Seq(LogLine)
  PROVE  IsFiniteSet(Chunks) /\ Cardinality(Chunks) \in Nat
<1>1. Len(log) \in Nat /\ DOMAIN log = 1 .. Len(log)
  BY LenProperties
<1>2. IsFiniteSet(1 .. Len(log)) /\ Chunks \subseteq 1 .. Len(log)
  BY <1>1, FS_Interval DEF Chunks
<1> QED BY <1>2, FS_Subset, FS_CardinalityType

LEMMA ChunkLogged == \A n \in Nat : Chunk(n) \in LogLine
  BY DEF Chunk, LogLine, Line, Kind, Stream

LEMMA DockerStepType ==
  ASSUME TypeOK, Shapes, DockerNext, UNCHANGED venvVars
  PROVE  Parts'
<1>0. Parts /\ DockerTypeOK /\ printed \in Nat
  BY PartsOfType, JobShape, LenProperties DEF Parts, DockerTypeOK
<1>1. UNCHANGED <<child, open, pipe, reader, queue, finished>> /\ UNCHANGED fileVars
  BY DEF venvVars, childVars, muxVars, fileVars
<1>2. FilesOK'
  BY <1>0, <1>1 DEF Parts, FilesOK, fileVars
<1>3. ASSUME UNCHANGED outputVars, DockerTypeOK'
      PROVE  Parts'
  BY <1>0, <1>1, <1>2, <1>3 DEF Parts, Shapes, ProgramOK, PipesOK, outputVars, OutputTypeOK, Sent
<1>4. ASSUME OutputTypeOK', stage' \in Stages, log' \in Seq(LogLine), UNCHANGED job, DockerTypeOK'
      PROVE  Parts'
  BY <1>0, <1>1, <1>2, <1>4 DEF Parts, Shapes, ProgramOK, PipesOK
<1>5. ASSUME NEW request \in Request, Late(request)
      PROVE  Parts'
  <2>1. DockerTypeOK'
    BY <1>0, <1>5, DaemonType DEF Late, DockerTypeOK, outputVars
  <2> QED BY <1>3, <1>5, <2>1 DEF Late
<1>6. CASE ContainerPrints \/ ContainerExits
  <2>1. DockerTypeOK'
    <3>1. Len(job.script) \in Nat
      BY JobShape, LenProperties
    <3> QED BY <1>0, <1>6, <3>1 DEF ContainerPrints, ContainerExits, DockerTypeOK, outputVars, daemonVars
  <2> QED BY <1>3, <1>6, <2>1 DEF ContainerPrints, ContainerExits
<1>7. CASE ReadChunk
  <2>1. Chunk(Cardinality(Chunks) + 1) \in LogLine
    BY <1>0, ChunksFinite, ChunkLogged DEF Parts, Shapes
  <2>2. Output("stream") /\ status' = status
    BY <1>7, <2>1, YieldOutput DEF ReadChunk
  <2>3. stage \notin {"closing", "done"} /\ (status' = stage => stage \in Outcome) /\ "stream" \in Stages
    BY <1>0, <1>7, <2>2 DEF ReadChunk, Parts, OutputTypeOK, Outcome, Stages, DockerExecuting
  <2>4. DockerTypeOK'
    BY <1>0, <1>7, <2>2 DEF ReadChunk, dockerVars, daemonVars, DockerTypeOK, Output
  <2> QED BY <1>4, <2>2, <2>3, <2>4, OutputType DEF Output
<1>8. CASE EndDocker
  <2>1. Output("clean") /\ stage \in Outcome /\ stage \notin {"closing", "done"} /\ "clean" \in Stages
    BY <1>8, StageNames DEF EndDocker, Conclude, Output, TypeOK, OutputTypeOK, Cleanup, Outcome
  <2>2. DockerTypeOK'
    BY <1>0, <1>8, <2>1 DEF EndDocker, dockerVars, daemonVars, DockerTypeOK, Output
  <2> QED BY <1>4, <2>1, <2>2, OutputType DEF Output
<1>9. CASE CancelDocker
  <2>1. \E next \in {"aborted", "clean"} : Output(next) /\ status' = status
    BY <1>9 DEF CancelDocker, CutOff, Output
  <2>2. stage \notin {"closing", "done"} /\ (status' = stage => stage \in Outcome)
    BY <1>0, <1>9, <2>1 DEF CancelDocker, DockerExecuting, Outcome, Parts, OutputTypeOK, Awaited, AwaitedAt
  <2>3. DockerTypeOK'
    BY <1>0, <1>9, <2>1, AwaitedType DEF CancelDocker, DockerTypeOK, daemonVars, Output
  <2>4. "aborted" \in Stages /\ "clean" \in Stages
    BY StageNames DEF Cleanup
  <2> QED BY <1>4, <2>1, <2>2, <2>3, <2>4, OutputType DEF Output
<1>10. CASE Prepare \/ Connect \/ Rejected \/ Timed \/ StreamEnds \/ BeginCleanup \/ DaemonAnswers \/ StreamBreaks
  <2>1. \E next \in DockerExecuting \cup Outcome \cup Cleanup \cup {"persist", "aborted"} : Says(next)
    <3>1. CASE Prepare \/ Connect \/ Rejected \/ Timed \/ StreamEnds \/ StreamBreaks
      BY <3>1 DEF Prepare, Connect, Rejected, Timed, StreamEnds, StreamBreaks, Raise, Says,
                  DockerExecuting, Outcome, NoticeText
    <3>2. CASE Build \/ StartContainer \/ Attach \/ WaitContainer
      BY <3>2 DEF Build, StartContainer, Attach, WaitContainer, Raise, Says,
                  DockerExecuting, Outcome, NoticeText
    <3>3. CASE BeginCleanup \/ GetContainer \/ RemoveContainer \/ RemoveImage
      BY <3>3 DEF BeginCleanup, GetContainer, RemoveContainer, RemoveImage, Says, Cleanup
    <3> QED BY <1>10, <3>1, <3>2, <3>3 DEF DaemonAnswers
  <2>2. stage \notin Outcome \cup {"running", "closing", "done"}
    BY <1>10 DEF Prepare, Connect, Rejected, Timed, StreamEnds, StreamBreaks, Build, StartContainer,
                 Attach, WaitContainer, BeginCleanup, GetContainer, RemoveContainer, RemoveImage,
                 DaemonAnswers, Outcome
  <2>3. OutputTypeOK' /\ stage' \in Stages /\ log' \in Seq(LogLine) /\ UNCHANGED job
    BY <2>1, <2>2, SaysType
  <2>4. DockerTypeOK'
    <3> USE <1>0, <2>3 DEF dockerVars, daemonVars, DockerTypeOK, Request, Performs, Fails
    <3>1. CASE Prepare \/ Connect \/ Rejected \/ Timed \/ StreamEnds \/ StreamBreaks \/ BeginCleanup
      BY <3>1 DEF Prepare, Connect, Rejected, Timed, StreamEnds, StreamBreaks, BeginCleanup
    <3>2. CASE Build \/ StartContainer
      BY <3>2 DEF Build, StartContainer
    <3>3. CASE Attach \/ WaitContainer \/ GetContainer
      BY <3>3 DEF Attach, WaitContainer, GetContainer
    <3>4. CASE RemoveContainer \/ RemoveImage
      BY <3>4 DEF RemoveContainer, RemoveImage
    <3> QED BY <1>10, <3>1, <3>2, <3>3, <3>4 DEF DaemonAnswers
  <2> QED BY <1>4, <2>3, <2>4
<1> QED BY <1>5, <1>6, <1>7, <1>8, <1>9, <1>10 DEF DockerNext, DockerRuns, DaemonAnswers

LEMMA OutputStepType ==
  ASSUME TypeOK, Shapes, OutputStep
  PROVE  Parts'
<1>0. Parts
  BY PartsOfType
<1>1. UNCHANGED <<child, open, pipe, reader, queue, finished>> /\ UNCHANGED fileVars
      /\ UNCHANGED dockerVars
  BY DEF OutputStep, venvVars, childVars, muxVars, fileVars
<1>2. FilesOK' /\ UNCHANGED <<client, context, image, container, printed, known, orphans, missed>>
  BY <1>0, <1>1 DEF Parts, FilesOK, fileVars, dockerVars, daemonVars
<1>3. ASSUME OutputTypeOK', stage' \in Stages, log' \in Seq(LogLine), UNCHANGED job
      PROVE  Parts'
  BY <1>0, <1>1, <1>2, <1>3 DEF Parts, Shapes, ProgramOK, PipesOK, DockerTypeOK
<1>4. CASE Start
  <2>1. \E next \in VenvExecuting \cup DockerExecuting : Says(next)
    BY <1>4 DEF Start, Says, VenvExecuting, DockerExecuting, NoticeText
  <2>2. stage \notin Outcome \cup {"running", "closing", "done"}
    BY <1>4 DEF Start, Outcome
  <2> QED BY <1>3, <2>1, <2>2, SaysType
<1>5. CASE Persist
  <2>1. Output("closing") /\ status' = status /\ "closing" \in Stages
    BY <1>5 DEF Persist, Output, Registered, Stages, Ending
  <2>2. stage \notin {"closing", "done"} /\ status' # stage
    BY <1>0, <1>5, <2>1 DEF Persist, Parts, OutputTypeOK, Outcome
  <2> QED BY <1>3, <2>1, <2>2, OutputType DEF Output
<1>6. CASE Close
  <2>1. Output("done") /\ status' = status /\ "done" \in Stages /\ stage = "closing"
    BY <1>6, SilentOutput DEF Close, Stages, Ending
  <2>2. status' # stage
    BY <1>0, <2>1 DEF Parts, OutputTypeOK, Outcome
  <2> QED BY <1>3, <2>1, <2>2, OutputType DEF Output
<1>7. ASSUME NEW l \in Listener, Send(l) \/ Register(l) \/ Drop(l) \/ Unregister(l)
      PROVE  Parts'
  <2>1. Len(Sent) \in Nat
    BY <1>0, SentGrows DEF Parts
  <2>2. UNCHANGED <<job, stage, status, log>> /\ Sent' = Sent
    BY <1>7 DEF Send, Register, Drop, Unregister, Sent
  <2>3. session' \in [Listener -> {"new", "joined", "dropped", "left"}] /\ toSend' \subseteq Listener
    BY <1>0, <1>7 DEF Send, Register, Drop, Unregister, Parts, OutputTypeOK
  <2>4. got' \in [Listener -> 0 .. Len(Sent)]
    BY <1>0, <1>7, <2>1 DEF Send, Register, Drop, Unregister, Parts, OutputTypeOK
  <2>5. OutputTypeOK'
    BY <1>0, <2>2, <2>3, <2>4 DEF Parts, OutputTypeOK
  <2> QED BY <1>0, <1>3, <2>2, <2>5 DEF Parts, Shapes
<1> QED BY <1>4, <1>5, <1>6, <1>7 DEF OutputStep, Deliver

LEMMA TypeInit == Init => Parts
<1> SUFFICES ASSUME Init PROVE Parts
  OBVIOUS
<1>1. log = << >> /\ queue = << >> /\ log \in Seq(LogLine) /\ queue \in Seq(Line \cup {Sentinel})
      /\ << >> \in Seq(Line) /\ << >> \in Seq(Op) /\ Len(<< >>) = 0
  BY EmptySeq DEF Init, OutputInit, VenvInit
<1>2. Sent = log /\ OutputTypeOK /\ stage \in Stages
  BY <1>1 DEF Init, OutputInit, Sent, OutputTypeOK, Stages, VenvExecuting
<1>3. job.script \in Seq(Op)
  BY <1>2, JobAssumption DEF OutputTypeOK, Job
<1>4. DockerTypeOK
  <2>1. printed \in 0 .. Len(job.script)
    BY <1>3, LenProperties DEF Init, DockerInit
  <2>2. orphans \subseteq missed /\ missed \subseteq Request
    BY DEF Init, DockerInit
  <2> QED BY <2>1, <2>2 DEF Init, DockerInit, DockerTypeOK
<1>5. Shapes
  <2>1. child \in [kind : Kind, program : Seq(Op), at : Nat, alive : BOOLEAN] /\ child.kind = "script"
    BY <1>1 DEF Init, VenvInit, NoChild, Kind
  <2>2. /\ open \in [Stream -> BOOLEAN] /\ pipe \in [Stream -> Seq(Line)]
        /\ reader \in [Stream -> {"reading", "gone"}]
    BY <1>1 DEF Init, VenvInit
  <2>3. log \in Seq(LogLine) /\ queue \in Seq(Line \cup {Sentinel})
    BY <1>1
  <2> QED BY ONLY <2>1, <2>2, <2>3 DEF Shapes
<1>6. ProgramOK
  <2>1. child.program = << >> /\ child.at = 0
    BY DEF Init, VenvInit, NoChild
  <2> QED BY <2>1 DEF ProgramOK
<1>7. PipesOK
  <2>1. \A s \in Stream : pipe[s] = << >>
    BY DEF Init, VenvInit
  <2> QED BY <2>1, PipeAssumption DEF PipesOK
<1>8. FilesOK
  BY DEF Init, VenvInit, FilesOK
<1>9. finished \in 0 .. 2
  BY DEF Init, VenvInit
<1> QED BY <1>2, <1>4, <1>5, <1>6, <1>7, <1>8, <1>9 DEF Parts

LEMMA TypeStep ==
  ASSUME TypeOK, Shapes, Counted, [Next]_vars
  PROVE  Parts'
<1>1. CASE UNCHANGED vars
  <2>1. Parts
    BY PartsOfType
  <2> QED BY <1>1, <2>1
      DEF vars, outputVars, venvVars, childVars, muxVars, fileVars, dockerVars, daemonVars, Parts,
          OutputTypeOK, Sent, DockerTypeOK, Shapes, ProgramOK, PipesOK, FilesOK
<1> QED BY <1>1, VenvStepType, DockerStepType, OutputStepType DEF Next, VenvStep, DockerStep
--------------------------------------------------------------------------------
(* How a step moves the run along.                                         *)

\* The generator of an executor runs: it says nothing or yields one line.
Generates(from, to) ==
  /\ stage \in from /\ Quiet /\ stage' \in to
  /\ UNCHANGED <<job, status, session, got>>
  /\ \/ UNCHANGED <<log, toSend>>
     \/ /\ toSend' = Registered /\ stage' \notin Silent
        /\ \E e \in LogLine : log' = Append(log, e)

\* Cleanup goes on without a word.
CleansUp ==
  /\ stage \in Cleanup /\ stage' \in Cleanup \cup {"persist", "aborted"}
  /\ UNCHANGED <<job, status, log, session, got, toSend>>

LEMMA VenvMoves ==
  ASSUME TypeOK, Shapes, OneExecutor, Undisturbed, VenvNext
  PROVE  /\ job.mode = "venv"
         /\ \/ UNCHANGED outputVars
            \/ Generates(VenvExecuting \ {"start"}, (VenvExecuting \cup Outcome) \ {"start"})
            \/ EndVenv \/ CancelVenv
<1> DEFINE From == VenvExecuting \ {"start"}
           To   == (VenvExecuting \cup Outcome) \ {"start"}
<1>1. CASE UNCHANGED outputVars /\ (Write \/ Exit \/ Finalize \/ \E s \in Stream : CloseStream(s) \/ Drain(s))
  <2>1. ~ VenvInit
    <3>1. CASE Write \/ Exit
      <4>1. child.alive
        BY <3>1 DEF Write, Exit
      <4>2. VenvInit => child.alive = FALSE
        BY DEF VenvInit, NoChild
      <4> QED BY <4>1, <4>2
    <3>2. CASE Finalize
      BY <3>2 DEF Finalize, VenvInit
    <3>3. ASSUME NEW s \in Stream, CloseStream(s) \/ Drain(s)
          PROVE  ~ VenvInit
      BY <3>3 DEF CloseStream, Drain, VenvInit
    <3> QED BY <1>1, <3>1, <3>2, <3>3
  <2> QED BY <1>1, <2>1, JobShape DEF OneExecutor, Mode
<1>2. CASE EndVenv \/ CancelVenv
  BY <1>2 DEF EndVenv, CancelVenv
<1>3. ASSUME Generates(From, To)
      PROVE  job.mode = "venv"
  BY <1>3 DEF OneExecutor, Generates
<1>4. CASE CreateVenv \/ Install \/ Installed \/ Launch
  BY <1>3, <1>4, NoticeLogged
     DEF CreateVenv, Install, Installed, Launch, Yield, Silently, Generates, VenvExecuting, Outcome,
         Silent, Cleanup, NoticeText
<1>5. CASE PipEnds \/ Finish \/ Expire \/ Kill
  <2>1. Quiet
    BY <1>5 DEF PipEnds, Finish, Expire, Kill, Undisturbed, Silent
  <2> QED BY <1>3, <1>5, <2>1, NoticeLogged
     DEF PipEnds, Finish, Expire, Kill, Yield, Silently, Generates, VenvExecuting, Outcome,
         Silent, Cleanup, NoticeText
<1>6. CASE Take
  <2>1. stage \in {"pip", "script"} /\ Quiet /\ queue # << >> /\ queue \in Seq(Line \cup {Sentinel})
    BY <1>6 DEF Take, Streaming, Shapes
  <2>2. Head(queue) \in Line \cup {Sentinel}
    BY <2>1, TailFacts
  <2>3. CASE Head(queue) = Sentinel
    BY <1>3, <1>6, <2>1, <2>3
       DEF Take, Silently, Generates, VenvExecuting, Outcome, AfterStreams
  <2>4. CASE Head(queue) # Sentinel
    <3>1. Relayed(Head(queue)) \in LogLine
      BY <2>2, <2>4, RelayedFacts
    <3>2. Yield(Relayed(Head(queue)), stage)
      BY <1>6, <2>4 DEF Take
    <3> QED BY <1>3, <2>1, <3>1, <3>2
        DEF Yield, Generates, VenvExecuting, Outcome, Silent, Cleanup
  <2> QED BY <2>3, <2>4
<1> QED BY <1>1, <1>2, <1>3, <1>4, <1>5, <1>6
    DEF VenvNext, VenvRuns, Write, Exit, Finalize, CloseStream, Drain

LEMMA DockerMoves ==
  ASSUME TypeOK, Shapes, OneExecutor, DockerNext
  PROVE  /\ job.mode = "docker"
         /\ \/ UNCHANGED outputVars
            \/ Generates(DockerExecuting, DockerExecuting \cup Outcome)
            \/ CleansUp \/ EndDocker \/ CancelDocker
<1>1. CASE ContainerPrints \/ ContainerExits \/ \E request \in Request : Late(request)
  <2>1. ~ DockerInit
    BY <1>1 DEF ContainerPrints, ContainerExits, Late, DockerInit
  <2> QED BY <1>1, <2>1, JobShape DEF OneExecutor, Mode, ContainerPrints, ContainerExits, Late
<1>2. CASE EndDocker \/ CancelDocker
  BY <1>2 DEF EndDocker, CancelDocker
<1>3. ASSUME Generates(DockerExecuting, DockerExecuting \cup Outcome) \/ CleansUp
      PROVE  job.mode = "docker"
  BY <1>3 DEF OneExecutor, Generates, CleansUp
<1>4. CASE Prepare \/ Connect \/ Rejected \/ Timed \/ StreamEnds \/ StreamBreaks
  BY <1>3, <1>4, NoticeLogged
     DEF Prepare, Connect, Rejected, Timed, StreamEnds, StreamBreaks, Raise, Yield, Silently,
         Generates, DockerExecuting, Outcome, Silent, Cleanup, NoticeText
<1>5. CASE Build \/ StartContainer \/ Attach \/ WaitContainer
  BY <1>3, <1>5, NoticeLogged
     DEF Build, StartContainer, Attach, WaitContainer, Raise, Yield, Silently,
         Generates, DockerExecuting, Outcome, Silent, Cleanup, NoticeText
<1>6. CASE BeginCleanup \/ GetContainer \/ RemoveContainer \/ RemoveImage
  BY <1>3, <1>6 DEF BeginCleanup, GetContainer, RemoveContainer, RemoveImage, Silently, CleansUp, Cleanup
<1>7. CASE ReadChunk
  <2>1. Chunk(Cardinality(Chunks) + 1) \in LogLine
    BY ChunksFinite, ChunkLogged DEF Shapes
  <2> QED BY <1>3, <1>7, <2>1
      DEF ReadChunk, Yield, Generates, DockerExecuting, Outcome, Silent, Cleanup
<1> QED BY <1>1, <1>2, <1>3, <1>4, <1>5, <1>6, <1>7 DEF DockerNext, DockerRuns, DaemonAnswers

LEMMA StartMoves ==
  ASSUME Start, Undisturbed
  PROVE  Generates({"start"}, IF job.mode = "venv" THEN {"create"} ELSE {"prepare"})
  BY NoticeLogged DEF Start, Undisturbed, Silent, Yield, Generates, Cleanup, NoticeText

--------------------------------------------------------------------------------
(* The parts of the invariant that speak of stages and listeners.          *)

LEMMA ExecutorStep ==
  ASSUME TypeOK, Shapes, OneExecutor, Undisturbed, [Next]_vars
  PROVE  OneExecutor'
<1>1. CASE VenvStep
  <2>1. job.mode = "venv" /\ UNCHANGED dockerVars /\ job' = job /\
        (stage' = stage \/ stage' \in (VenvExecuting \cup Outcome \cup {"persist"}) \ {"start"})
    BY <1>1, VenvMoves DEF VenvStep, Generates, EndVenv, CancelVenv, Conclude, CutOff, outputVars
  <2> QED BY <2>1 DEF OneExecutor, DockerInit, dockerVars, daemonVars, VenvExecuting, DockerExecuting,
                      Outcome, Cleanup
<1>2. CASE DockerStep
  <2>1. job.mode = "docker" /\ UNCHANGED venvVars /\ job' = job /\
        (stage' = stage \/ stage' \in DockerExecuting \cup Outcome \cup Cleanup \cup {"persist", "aborted"})
    BY <1>2, DockerMoves
       DEF DockerStep, Generates, CleansUp, EndDocker, CancelDocker, Conclude, CutOff, outputVars, Cleanup
  <2> QED BY <2>1 DEF OneExecutor, VenvInit, venvVars, childVars, muxVars, fileVars,
                      VenvExecuting, DockerExecuting, Outcome, Cleanup
<1>3. CASE OutputStep
  <2>1. job' = job /\ UNCHANGED <<venvVars, dockerVars>> /\
        (stage' = stage \/ stage' \in {"closing", "done"}
          \/ stage' \in IF job.mode = "venv" THEN {"create"} ELSE {"prepare"})
    BY <1>3, StartMoves
       DEF OutputStep, Deliver, Generates, Persist, Close, Silently, Send, Register, Drop, Unregister
  <2> QED BY <2>1, JobShape
      DEF OneExecutor, VenvInit, venvVars, childVars, muxVars, fileVars, DockerInit, dockerVars, daemonVars,
          VenvExecuting, DockerExecuting, Outcome, Cleanup, Mode
<1>4. CASE UNCHANGED vars
  BY <1>4 DEF vars, outputVars, OneExecutor, VenvInit, venvVars, childVars, muxVars, fileVars,
              DockerInit, dockerVars, daemonVars
<1> QED BY <1>1, <1>2, <1>3, <1>4 DEF Next

LEMMA ResultStep ==
  ASSUME TypeOK, Shapes, OneExecutor, Undisturbed, ResultLast, [Next]_vars
  PROVE  ResultLast'
<1> USE DEF ResultLast, Final, Cleanup, Ending
<1>1. CASE VenvStep
  BY <1>1, VenvMoves DEF VenvStep, Generates, EndVenv, CancelVenv, Conclude, CutOff, outputVars, VenvExecuting
<1>2. CASE DockerStep
  BY <1>2, DockerMoves DEF DockerStep, Generates, CleansUp, EndDocker, CancelDocker, Conclude, CutOff, outputVars,
     DockerExecuting
<1>3. CASE OutputStep
  BY <1>3, StartMoves
     DEF OutputStep, Deliver, Generates, Persist, Close, Silently, Send, Register, Drop, Unregister
<1>4. CASE UNCHANGED vars
  BY <1>4 DEF vars, outputVars
<1> QED BY <1>1, <1>2, <1>3, <1>4 DEF Next

LEMMA UndisturbedStep ==
  ASSUME TypeOK, Shapes, OneExecutor, Undisturbed, [Next]_vars
  PROVE  Undisturbed'
<1> USE DEF Undisturbed, Quiet
<1>0. \A l \in Registered : session[l] # "new"
  BY DEF Registered
<1>1. ASSUME NEW from, NEW to, Generates(from, to) PROVE Undisturbed'
  BY <1>0, <1>1 DEF Generates
<1>2. CASE VenvStep
  BY <1>1, <1>2, VenvMoves DEF VenvStep, EndVenv, CancelVenv, Conclude, CutOff, outputVars
<1>3. CASE DockerStep
  BY <1>1, <1>3, DockerMoves DEF DockerStep, CleansUp, EndDocker, CancelDocker, Conclude, CutOff, outputVars, Silent
<1>4. CASE Deliver
  <2>1. CASE Persist \/ Close
    BY <1>0, <1>4, <2>1 DEF Persist, Close, Silently, Silent, Cleanup
  <2>2. ASSUME NEW l \in Listener, Send(l) PROVE Undisturbed'
    BY <2>2 DEF Send
  <2> QED BY <1>1, <1>4, <2>1, <2>2, StartMoves DEF Deliver
<1>5. ASSUME NEW l \in Listener, Register(l) \/ Drop(l) \/ Unregister(l) PROVE Undisturbed'
  BY <1>5 DEF Register, Drop, Unregister, TypeOK, OutputTypeOK
<1>6. CASE UNCHANGED vars
  BY <1>6 DEF vars, outputVars
<1> QED BY <1>2, <1>3, <1>4, <1>5, <1>6 DEF Next, OutputStep
\* What neither executor has is not left behind.
LEMMA IdleVenv == VenvInit => Remains
  <1>1. VenvInit => child.alive = FALSE /\ reqFile = "none" /\ venvPath = FALSE
    BY DEF VenvInit, NoChild
  <1> QED BY <1>1 DEF Remains

LEMMA IdleDocker == OneExecutor /\ DockerInit /\ job.mode = "venv" => Owed /\ Exited
  BY DEF OneExecutor, DockerInit, Owed, Exited, DockerExecuting

LEMMA RemainsStep ==
  ASSUME TypeOK, Shapes, OneExecutor, OneExecutor', Undisturbed, ResultLast, Remains, [Next]_vars
  PROVE  Remains'
<1> USE DEF Remains, ChildStages, FileStages, Over, Ending, childVars, muxVars, fileVars
<1>0. ResultLast /\ \A x \in {stage} : x \in VenvExecuting \cup Outcome => status = "running"
  BY DEF ResultLast, Final, Cleanup, VenvExecuting, Outcome
<1>1. CASE VenvStep
  <2>1. CASE Write \/ Exit
    BY <2>1 DEF Write, Exit, outputVars, Shapes
  <2>2. CASE Finalize \/ \E s \in Stream : CloseStream(s) \/ Drain(s)
    BY <2>2 DEF Finalize, CloseStream, Drain, outputVars
  <2>3. CASE CreateVenv
    <3>1. child.alive = FALSE /\ reqFile # "there" /\ UNCHANGED <<child, reqFile>> /\ stage' \in {"created", "failed"}
      BY <2>3 DEF CreateVenv, Yield, VenvTypeOK, TypeOK
    <3> QED BY <3>1
  <2>10. CASE PipEnds
    <3>1. child.alive = FALSE /\ UNCHANGED child /\ stage' = "installed"
      BY <2>10 DEF PipEnds, Yield, Silently, Gone, VenvTypeOK, TypeOK
    <3> QED BY <3>1
  <2>11. CASE Installed
    <3>1. child.alive = FALSE /\ reqFile' # "there" /\ UNCHANGED child /\ stage' \in {"launch", "failed"}
      BY <2>11 DEF Installed, Yield, VenvTypeOK, TypeOK
    <3> QED BY <3>1
  <2>4. CASE Install \/ Launch
    BY <2>4 DEF Install, Launch, Yield, Silently, Spawn
  <2>5. CASE Take
    BY <2>5 DEF Take, Streaming, AfterStreams, Yield, Silently
  <2>6. CASE Finish \/ Expire
    BY <2>6 DEF Finish, Expire, Yield, Silently, Gone
  <2>7. CASE Kill
    BY <2>7 DEF Kill, Yield, Shapes
  <2>8. CASE EndVenv
    BY <2>8 DEF EndVenv, Conclude, Cleaned, Outcome
  <2>9. CASE CancelVenv
    BY <1>0, <2>9 DEF CancelVenv, CutOff, Cleaned
  <2> QED BY <1>1, <2>1, <2>2, <2>3, <2>4, <2>5, <2>6, <2>7, <2>8, <2>9, <2>10, <2>11
          DEF VenvStep, VenvNext, VenvRuns
<1>2. CASE DockerStep
  <2>1. job'.mode = "docker"
    BY <1>2, DockerMoves DEF DockerStep, Generates, CleansUp, EndDocker, CancelDocker, Conclude, CutOff, outputVars
  <2>2. VenvInit'
    BY <2>1 DEF OneExecutor
  <2> QED BY <2>2, IdleVenv, PTL
<1>3. CASE OutputStep
  <2>1. UNCHANGED <<child, reqFile, venv, venvPath, status>> /\ (stage' = stage \/ stage = "start" \/ stage \in {"persist", "closing"})
        /\ (stage = "start" => stage' \in {"start", "create", "prepare"})
        /\ (stage \in {"persist", "closing"} => stage' \in Ending)
    BY <1>3, StartMoves
       DEF OutputStep, Deliver, Generates, Persist, Close, Silently, Send, Register, Drop, Unregister, venvVars
  <2> QED BY <2>1
<1>4. CASE UNCHANGED vars
  BY <1>4 DEF vars, outputVars, venvVars
<1> QED BY <1>1, <1>2, <1>3, <1>4 DEF Next

LEMMA OwedStep ==
  ASSUME TypeOK, Shapes, OneExecutor, OneExecutor', Undisturbed, ResultLast, Owed, Exited, [Next]_vars
  PROVE  Owed' /\ Exited'
<1> USE DEF Owed, Exited, Ending, Cleanup, Final, dockerVars, daemonVars
<1>0. ResultLast /\ \A x \in {stage} : x \in DockerExecuting \cup Outcome => status = "running"
  BY DEF ResultLast, DockerExecuting, Outcome
<1>1. CASE VenvStep
  <2>1. job'.mode = "venv"
    BY <1>1, VenvMoves DEF VenvStep, Generates, EndVenv, CancelVenv, Conclude, CutOff, outputVars
  <2>2. DockerInit'
    BY <2>1 DEF OneExecutor
  <2>3. OneExecutor' /\ DockerInit' /\ (job.mode = "venv")' => Owed' /\ Exited'
    BY IdleDocker, PTL
  <2> QED BY <2>1, <2>2, <2>3
<1>2. CASE DockerStep
  <2>0. DockerTypeOK /\ orphans \subseteq missed /\ missed \subseteq Request /\ OutputTypeOK
    BY DEF TypeOK, DockerTypeOK
  <2>1. ASSUME NEW request \in Request, Late(request) PROVE Owed' /\ Exited'
    <3>1. orphans' = orphans \ {request} /\ request \in missed
          /\ UNCHANGED <<job, stage, status, client, context, known, missed>>
      BY <2>0, <2>1 DEF Late, outputVars
    <3>2. Performs(request) \/ UNCHANGED daemonVars
      BY <2>1 DEF Late
    <3>3. CASE UNCHANGED daemonVars
      BY <3>1, <3>3
    <3>4. CASE request = "build" /\ image' = TRUE /\ UNCHANGED container
      BY <3>1, <3>4
    <3>5. CASE request = "run" /\ image /\ container' \in {"created", "running"} /\ UNCHANGED image
      <4>1. status = "running" /\ stage \in Final
        BY <2>1, <3>5 DEF Late
      <4> QED BY <3>1, <3>5, <4>1
    <3>6. CASE request = "remove" /\ container' = "none" /\ UNCHANGED image
      BY <3>1, <3>6
    <3>7. CASE request = "rmi" /\ image' = (image /\ container = "running") /\ UNCHANGED container
      BY <3>1, <3>7
    <3> QED BY <3>2, <3>3, <3>4, <3>5, <3>6, <3>7 DEF Performs
  <2>2. CASE ContainerPrints \/ ContainerExits
    BY <2>2 DEF ContainerPrints, ContainerExits, outputVars
  <2>3. CASE Prepare \/ Connect \/ Rejected \/ Timed
    BY <1>0, <2>3 DEF Prepare, Connect, Rejected, Timed, Raise, Yield, Silently, DockerExecuting
  <2>4. CASE Build
    BY <1>0, <2>4 DEF Build, Performs, Fails, Yield, DockerExecuting
  <2>5. CASE StartContainer
    BY <1>0, <2>5 DEF StartContainer, Performs, Fails, Raise, Yield, DockerExecuting
  <2>6. CASE Attach \/ WaitContainer
    BY <1>0, <2>6 DEF Attach, WaitContainer, Performs, Fails, Raise, Yield, Silently, DockerExecuting
  <2>7. CASE ReadChunk \/ StreamEnds \/ StreamBreaks
    BY <1>0, <2>7 DEF ReadChunk, StreamEnds, StreamBreaks, Raise, Yield, Silently, DockerExecuting
  <2>8. CASE EndDocker
    BY <1>0, <2>8 DEF EndDocker, Conclude, Outcome
  <2>9. CASE BeginCleanup
    BY <2>9 DEF BeginCleanup, Silently
  <2>10. CASE GetContainer
    BY <2>10 DEF GetContainer, Silently, Performs, Fails
  <2>11. CASE RemoveContainer
    BY <2>11 DEF RemoveContainer, Silently, Performs, Fails
  <2>12. CASE RemoveImage
    BY <2>12 DEF RemoveImage, Silently, Performs, Fails
  <2>13. CASE CancelDocker
    BY <1>0, <2>13 DEF CancelDocker, CutOff, Awaited, AwaitedAt, DockerExecuting, Outcome
  <2> QED BY <1>2, <2>1, <2>2, <2>3, <2>4, <2>5, <2>6, <2>7, <2>8, <2>9, <2>10, <2>11, <2>12, <2>13
          DEF DockerStep, DockerNext, DockerRuns, DaemonAnswers
<1>3. CASE OutputStep
  <2>1. UNCHANGED <<job, status>> /\ UNCHANGED <<client, context, image, container, printed, known, orphans, missed>>
        /\ (stage' = stage \/ (stage = "start" /\ stage' \in {"create", "prepare"})
             \/ (stage = "persist" /\ stage' = "closing") \/ (stage = "closing" /\ stage' = "done"))
    BY <1>3, StartMoves
       DEF OutputStep, Deliver, Generates, Persist, Close, Silently, Send, Register, Drop, Unregister, venvVars
  <2> QED BY <2>1
<1>4. CASE UNCHANGED vars
  BY <1>4 DEF vars, outputVars
<1> QED BY <1>1, <1>2, <1>3, <1>4 DEF Next

\* A step of the generator sends every listener the line or nothing.
LEMMA FollowGenerated ==
  ASSUME TypeOK, Shapes, ListenersFollow, NEW from, NEW to, from \cap Final = {}, to \cap Final = {},
         Generates(from, to)
  PROVE  ListenersFollow'
<1>1. stage \notin Final /\ stage' \notin Final /\ toSend = {} /\ UNCHANGED <<session, got>>
  BY DEF Generates, Quiet
<1>2. Sent = log /\ Sent' = log'
  BY <1>1 DEF Sent, Final, Ending
<1>3. Len(log) \in Nat /\ \A l \in Listener : session[l] = "joined" => got[l] = Len(log)
  BY <1>1, <1>2, LenProperties DEF ListenersFollow, Shapes, Final, Over
<1>4. CASE UNCHANGED <<log, toSend>>
  BY <1>1, <1>2, <1>3, <1>4 DEF ListenersFollow
<1>5. CASE toSend' = Registered /\ \E e \in LogLine : log' = Append(log, e)
  <2>1. Len(log') = Len(log) + 1
    BY <1>5, AppendFacts DEF Shapes
  <2> QED BY <1>1, <1>2, <1>3, <1>5, <2>1 DEF ListenersFollow, Registered
<1> QED BY <1>4, <1>5 DEF Generates

LEMMA FollowStep ==
  ASSUME TypeOK, Shapes, OneExecutor, Undisturbed, ResultLast, ListenersFollow, [Next]_vars
  PROVE  ListenersFollow'
<1>0. Len(log) \in Nat /\ OutputTypeOK
  BY LenProperties DEF Shapes, TypeOK
<1>1. CASE UNCHANGED outputVars
  BY <1>1 DEF ListenersFollow, outputVars, Sent, Over
<1>2. ASSUME NEW next, next \in {"persist", "clean"}, Conclude(next) PROVE ListenersFollow'
  <2>1. Sent = log /\ Sent' = log' /\ log' = log /\ stage \notin Final
    BY <1>2 DEF Conclude, Sent, Outcome, Final, Ending, Cleanup
  <2> QED BY <1>2, <2>1 DEF ListenersFollow, Conclude, Over, Final
\* A run that is cut off before its end has no result, and never will.
<1>3. CASE CancelVenv \/ CancelDocker
  <2>1. CASE stage \notin Final
    <3>1. status' = "running" /\ stage' \in Final
      BY <1>3, <2>1 DEF ResultLast, CancelVenv, CancelDocker, CutOff, Final, Ending, Cleanup
    <3> QED BY <3>1 DEF ListenersFollow, Final, Over
  <2>2. CASE stage \in Final
    <3>1. stage \in Cleanup /\ stage' = "aborted" /\ UNCHANGED <<status, log, session, got>> /\ toSend' = toSend
      BY <1>3, <2>2 DEF CancelVenv, CancelDocker, CutOff, Final, Ending, Cleanup, VenvExecuting,
                        DockerExecuting, Outcome, Undisturbed, Silent, Quiet, Awaited, AwaitedAt
    <3>2. stage \notin {"closing", "done"} /\ stage' \notin {"closing", "done"}
      BY <3>1 DEF Cleanup
    <3>3. Sent = log /\ Sent' = log'
      BY <3>2 DEF Sent
    <3>4. ListenersFollow' <=> ListenersFollow
      BY <3>1, <3>3 DEF ListenersFollow, Over, Ending, Cleanup
    <3> QED BY <3>4
  <2> QED BY <2>1, <2>2
<1>4. CASE CleansUp
  <2>1. /\ UNCHANGED <<status, log, session, got, toSend>> /\ stage \in Cleanup
        /\ stage' \in Cleanup \cup {"persist", "aborted"}
    BY <1>4 DEF CleansUp
  <2>2. stage \notin {"closing", "done"} /\ stage' \notin {"closing", "done"}
    BY <2>1 DEF Cleanup
  <2>3. Sent = log /\ Sent' = log'
    BY <2>2 DEF Sent
  <2>4. Over' \/ stage' \in Cleanup
    BY <2>1 DEF Over, Ending
  <2> QED BY <2>1, <2>3, <2>4 DEF ListenersFollow
<1>5. CASE VenvStep
  <2>1. ((VenvExecuting \cup Outcome) \ {"start"}) \cap Final = {} /\ (VenvExecuting \ {"start"}) \cap Final = {}
    BY DEF VenvExecuting, Outcome, Final, Ending, Cleanup
  <2> QED BY <1>1, <1>2, <1>3, <1>5, <2>1, VenvMoves, FollowGenerated DEF VenvStep, EndVenv
<1>6. CASE DockerStep
  <2>1. (DockerExecuting \cup Outcome) \cap Final = {} /\ DockerExecuting \cap Final = {}
    BY DEF DockerExecuting, Outcome, Final, Ending, Cleanup
  <2> QED BY <1>1, <1>2, <1>3, <1>4, <1>6, <2>1, DockerMoves, FollowGenerated DEF DockerStep, EndDocker
<1>7. CASE Start
  <2>1. {"start"} \cap Final = {} /\ (IF job.mode = "venv" THEN {"create"} ELSE {"prepare"}) \cap Final = {}
    BY DEF Final, Ending, Cleanup
  <2> QED BY <1>7, <2>1, StartMoves, FollowGenerated
<1>8. CASE Persist
  <2>1. toSend = {} /\ Sent = log /\ Sent' = Append(log, Notice("finished")) /\ UNCHANGED <<status, session, got>>
        /\ toSend' = Registered
    BY <1>8 DEF Persist, Sent, Undisturbed, Silent, Quiet
  <2>2. Notice("finished") \in LogLine
    BY NoticeLogged DEF NoticeText
  <2>3. log \in Seq(LogLine)
    BY DEF Shapes
  <2>4. Len(Append(log, Notice("finished"))) = Len(log) + 1
    BY <2>2, <2>3, AppendFacts
  <2>5. Len(Sent') = Len(log) + 1
    BY <2>1, <2>4
  <2> QED BY <1>0, <1>8, <2>1, <2>5 DEF ListenersFollow, Registered, Persist, Over, Ending
<1>9. CASE Close
  BY <1>0, <1>9 DEF Close, Silently, Sent, ListenersFollow, Over, Ending
<1>10. ASSUME NEW l \in Listener, Send(l) \/ Register(l) \/ Drop(l) \/ Unregister(l)
       PROVE  ListenersFollow'
  <2>1. UNCHANGED <<stage, status, log>> /\ Sent' = Sent
    BY <1>10 DEF Send, Register, Drop, Unregister, Sent
  <2>2. Len(Sent) \in Nat
    BY SentGrows
  <2> QED BY <1>0, <1>10, <2>1, <2>2
      DEF Send, Register, Drop, Unregister, ListenersFollow, Over, OutputTypeOK, Undisturbed
<1>11. CASE UNCHANGED vars
  BY <1>1, <1>11 DEF vars
<1> QED BY <1>5, <1>6, <1>7, <1>8, <1>9, <1>10, <1>11 DEF Next, OutputStep, Deliver
--------------------------------------------------------------------------------
(* The lines: where each of them is between the subprocess and the log.    *)

LEMMA LogAppend ==
  ASSUME Shapes, NEW e \in LogLine, log' = Append(log, e)
  PROVE  /\ Len(log) \in Nat /\ DOMAIN log = 1 .. Len(log)
         /\ DOMAIN log' = DOMAIN log \cup {Len(log) + 1} /\ Len(log) + 1 \notin DOMAIN log
         /\ log'[Len(log) + 1] = e
         /\ \A i \in DOMAIN log : log'[i] = log[i]
<1>1. log \in Seq(LogLine)
  BY DEF Shapes
<1> QED BY <1>1, AppendFacts

\* The lines the programs printed are not moved by what else is logged.
LEMMA OthersKept ==
  ASSUME Shapes, child'.kind = child.kind, NEW s \in Stream,
         UNCHANGED log \/ \E e \in LogLine : log' = Append(log, e) /\ e.kind \notin {"pip", "script"}
  PROVE  Logged(s)' = Logged(s) /\ \A i \in Logged(s) : log'[i] = log[i]
<1>1. CASE UNCHANGED log
  BY <1>1 DEF Logged
<1>2. ASSUME NEW e \in LogLine, log' = Append(log, e), e.kind \notin {"pip", "script"}
      PROVE  Logged(s)' = Logged(s) /\ \A i \in Logged(s) : log'[i] = log[i]
  BY <1>2, LogAppend DEF Logged, Shapes
<1> QED BY <1>1, <1>2

LEMMA FlowKept ==
  ASSUME Shapes, NEW s \in Stream, Flow(s),
         child'.kind = child.kind, child'.program = child.program, child'.at = child.at,
         child'.alive => child.alive,
         open[s] /\ ~ open'[s] => ~ child.alive \/ Unwritten(s) = {},
         Logged(s)' = Logged(s), \A i \in Logged(s) : log'[i] = log[i],
         InQueue(s)' = InQueue(s), \A i \in InQueue(s) : queue'[i] = queue[i],
         pipe'[s] = pipe[s], reader'[s] = reader[s]
  PROVE  Flow(s)'
<1>1. Written(s)' = Written(s) /\ Readable(s)' = Readable(s) /\ Unwritten(s)' = Unwritten(s)
  BY DEF Written, Readable, Unwritten
<1>2. PlaceLog(s)' /\ PlaceQueue(s)' /\ PlacePipe(s)' /\ PlaceOrder(s)'
  BY <1>1 DEF Flow, PlaceLog, PlaceQueue, PlacePipe, PlaceOrder
<1>3. /\ \A n : OnLog(s, n) => OnLog(s, n)'
      /\ \A n : OnQueue(s, n)' <=> OnQueue(s, n)
      /\ \A n : OnPipe(s, n)' <=> OnPipe(s, n)
  BY <1>1 DEF OnLog, OnQueue, OnPipe
<1>4. Covered(s)'
  BY <1>1, <1>3 DEF Flow, Covered, Nowhere
<1> QED BY <1>2, <1>4 DEF Flow

\* What a step of the subprocess writes, and where.
Wrote(n, s, line) ==
  /\ child.at \in Nat /\ n = child.at + 1 /\ n \in DOMAIN child.program
  /\ DOMAIN child.program = 1 .. Len(child.program)
  /\ s \in Stream /\ child.program[n].stream = s
  /\ line \in Line /\ line.kind = child.kind /\ line.stream = s /\ line.n = n
  /\ child.alive /\ UNCHANGED <<log, open, reader, queue>>
  /\ child'.kind = child.kind /\ child'.program = child.program /\ child'.at = n
  /\ child'.alive = child.alive
  /\ pipe'[s] = Append(pipe[s], line) /\ pipe[s] \in Seq(Line)
  /\ \A y \in Stream : y # s => pipe'[y] = pipe[y]

LEMMA WriteFacts ==
  ASSUME Shapes, Write
  PROVE  \E n, s, line : Wrote(n, s, line)
<1> DEFINE n == child.at + 1
           s == child.program[n].stream
           line == [kind |-> child.kind, stream |-> s, n |-> n]
<1>1. /\ child.at \in Nat /\ n \in DOMAIN child.program /\ s \in Stream
      /\ child.alive /\ DOMAIN child.program = 1 .. Len(child.program)
      /\ pipe' = [pipe EXCEPT ![s] = Append(@, line)]
      /\ child' = [child EXCEPT !.at = n]
      /\ UNCHANGED <<log, open, reader, queue>>
  <2>1. child.program \in Seq(Op) /\ child.at < Len(child.program) /\ child.at \in Nat
    BY DEF Write, Shapes
  <2>2. n \in DOMAIN child.program /\ n \in Nat /\ DOMAIN child.program = 1 .. Len(child.program)
    BY <2>1, LenProperties
  <2>3. child.program[n] \in Op
    BY <2>1, <2>2, LenProperties, ElementOfSeq
  <2> QED BY <2>1, <2>2, <2>3 DEF Write, Op, outputVars, muxVars
<1>2. /\ child'.kind = child.kind /\ child'.program = child.program /\ child'.at = n
      /\ child'.alive = child.alive
  BY <1>1 DEF Shapes
<1>3. line \in Line /\ line.n = n /\ line.stream = s /\ line.kind = child.kind
  BY <1>1 DEF Shapes, Line
<1>4. pipe[s] \in Seq(Line) /\ pipe'[s] = Append(pipe[s], line)
      /\ \A y \in Stream : y # s => pipe'[y] = pipe[y]
  BY <1>1 DEF Shapes
<1>5. n = child.at + 1 /\ child.program[n].stream = s
  OBVIOUS
<1>6. /\ child.at \in Nat /\ n \in DOMAIN child.program /\ s \in Stream
      /\ child.alive /\ DOMAIN child.program = 1 .. Len(child.program)
      /\ UNCHANGED <<log, open, reader, queue>>
  BY <1>1
<1> HIDE DEF n, s, line
<1>7. Wrote(n, s, line)
  BY ONLY <1>2, <1>3, <1>4, <1>5, <1>6 DEF Wrote
<1> QED BY <1>7

LEMMA WrittenMore ==
  ASSUME NEW n, NEW s, NEW line, Wrote(n, s, line)
  PROVE  /\ Written(s)' = Written(s) \cup {n} /\ n \notin Written(s) /\ n \in Unwritten(s)
         /\ \A m \in Written(s) : m \in Nat /\ m < n
         /\ \A m \in Readable(s) : m \in Readable(s)'
         /\ \A m \in Readable(s)' : m \in Readable(s) \/ (m = n /\ \A k \in Written(s) : child.program[k].fits)
         /\ \A x \in Stream : x # s => /\ Written(x)' = Written(x) /\ Unwritten(x)' = Unwritten(x)
                                      /\ Readable(x)' = Readable(x)
<1>1. /\ child.at \in Nat /\ n = child.at + 1 /\ n \in DOMAIN child.program
      /\ DOMAIN child.program = 1 .. Len(child.program)
      /\ child.program[n].stream = s
      /\ child'.program = child.program /\ child'.at = n
  BY DEF Wrote
<1>2. Written(s)' = Written(s) \cup {n} /\ n \notin Written(s) /\ n \in Unwritten(s)
      /\ \A m \in Written(s) : m \in Nat /\ m < n
  BY <1>1 DEF Written, Unwritten
<1>3. /\ \A m \in Readable(s) : m \in Readable(s)'
      /\ \A m \in Readable(s)' : m \in Readable(s) \/ (m = n /\ \A k \in Written(s) : child.program[k].fits)
  BY <1>1, <1>2 DEF Readable
<1>4. ASSUME NEW x \in Stream, x # s
      PROVE  Written(x)' = Written(x) /\ Unwritten(x)' = Unwritten(x) /\ Readable(x)' = Readable(x)
  <2>1. Written(x)' = Written(x) /\ Unwritten(x)' = Unwritten(x)
    BY <1>1, <1>4 DEF Written, Unwritten
  <2> QED BY <1>1, <2>1 DEF Readable
<1> QED BY <1>2, <1>3, <1>4

LEMMA WriteFlow ==
  ASSUME Shapes, Flows, NEW n, NEW s, NEW line, Wrote(n, s, line), NEW x \in Stream
  PROVE  Flow(x)'
<1>1. /\ child.at \in Nat /\ n = child.at + 1 /\ n \in DOMAIN child.program /\ s \in Stream
      /\ child.alive /\ DOMAIN child.program = 1 .. Len(child.program)
      /\ child.program[n].stream = s
      /\ UNCHANGED <<log, open, reader, queue>>
  BY DEF Wrote
<1>2. /\ child'.kind = child.kind /\ child'.program = child.program /\ child'.at = n
      /\ child'.alive = child.alive
  BY DEF Wrote
<1>3. line \in Line /\ line.n = n /\ line.stream = s /\ line.kind = child.kind
  BY DEF Wrote
<1>4. pipe[s] \in Seq(Line) /\ pipe'[s] = Append(pipe[s], line)
      /\ \A y \in Stream : y # s => pipe'[y] = pipe[y]
  BY DEF Wrote
<1>5. /\ Len(pipe[s]) \in Nat /\ DOMAIN pipe'[s] = 1 .. Len(pipe[s]) + 1 /\ DOMAIN pipe[s] = 1 .. Len(pipe[s])
      /\ pipe'[s][Len(pipe[s]) + 1] = line
      /\ \A i \in DOMAIN pipe[s] : pipe'[s][i] = pipe[s][i]
  BY <1>3, <1>4, AppendFacts
<1>6. \A y \in Stream : Logged(y)' = Logged(y) /\ InQueue(y)' = InQueue(y)
  BY <1>1, <1>2 DEF Logged, InQueue
<1>7. /\ Written(s)' = Written(s) \cup {n} /\ n \notin Written(s) /\ n \in Unwritten(s)
      /\ \A m \in Written(s) : m \in Nat /\ m < n
      /\ \A m \in Readable(s) : m \in Readable(s)'
      /\ \A m \in Readable(s)' : m \in Readable(s) \/ (m = n /\ \A k \in Written(s) : child.program[k].fits)
  BY WrittenMore
<1>8. CASE x = s
  <2>0. Flow(s)
    BY <1>1 DEF Flows
  <2>1. PlaceLog(s)' /\ PlaceQueue(s)'
    BY <1>1, <1>2, <1>6, <1>7, <2>0 DEF Flow, PlaceLog, PlaceQueue
  <2>2. PlacePipe(s)'
    <3>1. PlacePipe(s)
      BY <2>0 DEF Flow
    <3>2. \A i \in DOMAIN pipe[s] : pipe[s][i].n \in Nat /\ pipe[s][i].n < n
      BY <1>7, <3>1 DEF PlacePipe
    <3>3. \A i \in DOMAIN pipe'[s] :
            \/ i \in DOMAIN pipe[s] /\ i < Len(pipe[s]) + 1 /\ pipe'[s][i] = pipe[s][i]
            \/ i = Len(pipe[s]) + 1 /\ pipe'[s][i] = line
      BY <1>5
    <3>4. \A i \in DOMAIN pipe'[s] :
            pipe'[s][i].kind = child'.kind /\ pipe'[s][i].stream = s /\ pipe'[s][i].n \in Written(s)'
      BY <1>2, <1>3, <1>7, <3>1, <3>3 DEF PlacePipe
    <3>5. \A i, k \in DOMAIN pipe'[s] : i < k => pipe'[s][i].n < pipe'[s][k].n
      <4> SUFFICES ASSUME NEW i \in DOMAIN pipe'[s], NEW k \in DOMAIN pipe'[s], i < k
                   PROVE  pipe'[s][i].n < pipe'[s][k].n
        OBVIOUS
      <4>1. i \in DOMAIN pipe[s] /\ pipe'[s][i] = pipe[s][i]
        <5>1. DOMAIN pipe'[s] = 1 .. Len(pipe[s]) + 1
          BY <1>5
        <5> QED BY <1>5, <3>3, <5>1
      <4> QED BY <1>3, <3>1, <3>2, <3>3, <4>1 DEF PlacePipe
    <3> QED BY <3>4, <3>5 DEF PlacePipe
  <2>3. \A m \in Readable(s) : m \in Written(s)
    BY DEF Readable
  <2>4. PlaceOrder(s)'
    <3>1. PlaceOrder(s) /\ PlaceLog(s) /\ PlaceQueue(s)
      BY <2>0 DEF Flow
    <3>2. \A k \in DOMAIN pipe'[s] : (k \in DOMAIN pipe[s] /\ pipe'[s][k] = pipe[s][k]) \/ pipe'[s][k] = line
      BY <1>5
    <3>3. \A i \in Logged(s) : log[i].n < n
      BY <1>7, <2>3, <3>1 DEF PlaceLog
    <3>4. \A i \in InQueue(s) : queue[i].n < n
      BY <1>7, <2>3, <3>1 DEF PlaceQueue
    <3>5. /\ \A i \in Logged(s), k \in InQueue(s) : log[i].n < queue[k].n
          /\ \A i \in Logged(s), k \in DOMAIN pipe[s] : log[i].n < pipe[s][k].n
          /\ \A i \in InQueue(s), k \in DOMAIN pipe[s] : queue[i].n < pipe[s][k].n
      BY <3>1 DEF PlaceOrder
    <3>6. /\ Logged(s)' = Logged(s) /\ InQueue(s)' = InQueue(s) /\ UNCHANGED <<log, queue>> /\ line.n = n
      BY <1>1, <1>3, <1>6
    <3> QED BY <3>2, <3>3, <3>4, <3>5, <3>6 DEF PlaceOrder
  <2>5. OnPipe(s, n)' /\ \A m : /\ OnLog(s, m) => OnLog(s, m)'
                                /\ OnQueue(s, m) => OnQueue(s, m)'
                                /\ OnPipe(s, m) => OnPipe(s, m)'
    BY <1>1, <1>3, <1>5, <1>6 DEF OnLog, OnQueue, OnPipe
  <2>6. open[s]
    BY <1>1, <1>7, <2>0 DEF Flow, Covered
  <2>7. Covered(s)'
    BY <1>1, <1>2, <1>7, <2>0, <2>5, <2>6 DEF Flow, Covered, Nowhere
  <2> QED BY <1>8, <2>1, <2>2, <2>4, <2>7 DEF Flow
<1>9. CASE x # s
  <2>0. Flow(x)
    BY DEF Flows
  <2>1. Written(x)' = Written(x) /\ Unwritten(x)' = Unwritten(x) /\ Readable(x)' = Readable(x)
    BY <1>9, WrittenMore
  <2>3. PlaceLog(x)' /\ PlaceQueue(x)' /\ PlacePipe(x)' /\ PlaceOrder(x)'
    BY <1>1, <1>2, <1>4, <1>6, <1>9, <2>0, <2>1 DEF Flow, PlaceLog, PlaceQueue, PlacePipe, PlaceOrder
  <2>4. \A m : /\ OnLog(x, m) => OnLog(x, m)'
               /\ OnQueue(x, m) => OnQueue(x, m)'
               /\ OnPipe(x, m) => OnPipe(x, m)'
    BY <1>1, <1>4, <1>6, <1>9 DEF OnLog, OnQueue, OnPipe
  <2>5. Covered(x)'
    BY <1>1, <1>2, <2>0, <2>1, <2>4 DEF Flow, Covered, Nowhere
  <2> QED BY <2>3, <2>5 DEF Flow
<1> QED BY <1>8, <1>9
\* One turn of a reader: a line that fits, a line too long, or the end of the stream.
ReadsLine(s) ==
  /\ pipe[s] # << >> /\ child.program[Head(pipe[s]).n].fits
  /\ queue' = Append(queue, Head(pipe[s])) /\ pipe'[s] = Tail(pipe[s]) /\ reader'[s] = "reading"
ReadsNoMore(s) ==
  /\ queue' = Append(queue, Sentinel) /\ reader'[s] = "gone"
  /\ \/ pipe[s] # << >> /\ ~ child.program[Head(pipe[s]).n].fits /\ pipe'[s] = Tail(pipe[s])
     \/ pipe[s] = << >> /\ ~ open[s] /\ pipe'[s] = pipe[s]

LEMMA DrainFacts ==
  ASSUME Shapes, NEW s \in Stream, Drain(s)
  PROVE  /\ reader[s] = "reading" /\ UNCHANGED <<stage, child, log, open, finished>>
         /\ \A y \in Stream : y # s => pipe'[y] = pipe[y] /\ reader'[y] = reader[y]
         /\ ReadsLine(s) \/ ReadsNoMore(s)
<1>1. reader[s] = "reading" /\ UNCHANGED <<stage, child, log, open, finished>>
  BY DEF Drain, outputVars
<1>2. \A y \in Stream : y # s => pipe'[y] = pipe[y] /\ reader'[y] = reader[y]
  BY DEF Drain, Shapes
<1>3. CASE pipe[s] = << >>
  <2>1. pipe' = pipe
    BY <1>3 DEF Drain, Shapes
  <2>2. ~ open[s] /\ queue' = Append(queue, Sentinel) /\ reader'[s] = "gone"
    BY <1>3 DEF Drain, Shapes
  <2> QED BY <1>1, <1>2, <1>3, <2>1, <2>2 DEF ReadsNoMore
<1>4. CASE pipe[s] # << >>
  BY <1>1, <1>4 DEF Drain, Shapes, ReadsNoMore, ReadsLine
<1> QED BY <1>1, <1>2, <1>3, <1>4

LEMMA LineNotSentinel == \A e \in Line : e # Sentinel
  BY DEF Line, Kind, Sentinel

LEMMA QueueAppend ==
  ASSUME Shapes, NEW e \in Line \cup {Sentinel}, queue' = Append(queue, e)
  PROVE  /\ Len(queue) \in Nat /\ DOMAIN queue = 1 .. Len(queue)
         /\ DOMAIN queue' = DOMAIN queue \cup {Len(queue) + 1} /\ Len(queue) + 1 \notin DOMAIN queue
         /\ Len(queue') = Len(queue) + 1 /\ queue'[Len(queue) + 1] = e
         /\ \A i \in DOMAIN queue : queue'[i] = queue[i] /\ i < Len(queue) + 1
<1>1. queue \in Seq(Line \cup {Sentinel})
  BY DEF Shapes
<1> QED BY <1>1, AppendFacts

LEMMA PipeTail ==
  ASSUME Shapes, NEW s \in Stream, pipe[s] # << >>, pipe'[s] = Tail(pipe[s])
  PROVE  /\ 1 \in DOMAIN pipe[s] /\ pipe[s][1] = Head(pipe[s]) /\ Head(pipe[s]) \in Line
         /\ \A i \in DOMAIN pipe'[s] :
              i + 1 \in DOMAIN pipe[s] /\ 1 < i + 1 /\ pipe'[s][i] = pipe[s][i + 1]
         /\ \A i \in DOMAIN pipe[s] :
              i = 1 \/ (i - 1 \in DOMAIN pipe'[s] /\ 1 < i /\ pipe'[s][i - 1] = pipe[s][i])
         /\ \A i, k \in DOMAIN pipe'[s] : i < k => i + 1 < k + 1
<1>1. pipe[s] \in Seq(Line)
  BY DEF Shapes
<1>2. /\ Head(pipe[s]) \in Line /\ Head(pipe[s]) = pipe[s][1]
      /\ Len(pipe[s]) \in Nat \ {0}
      /\ DOMAIN pipe[s] = 1 .. Len(pipe[s]) /\ DOMAIN pipe'[s] = 1 .. Len(pipe[s]) - 1
      /\ \A i \in 1 .. Len(pipe[s]) - 1 : pipe'[s][i] = pipe[s][i + 1]
  BY <1>1, TailFacts
<1>3. \A i \in DOMAIN pipe[s] :
        i = 1 \/ (i - 1 \in DOMAIN pipe'[s] /\ 1 < i /\ pipe'[s][i - 1] = pipe[s][i])
  <2> SUFFICES ASSUME NEW i \in DOMAIN pipe[s], i # 1
               PROVE  i - 1 \in DOMAIN pipe'[s] /\ 1 < i /\ pipe'[s][i - 1] = pipe[s][i]
    OBVIOUS
  <2>1. i \in Nat /\ i - 1 \in 1 .. Len(pipe[s]) - 1 /\ 1 < i /\ (i - 1) + 1 = i
    BY <1>2
  <2> QED BY <1>2, <2>1
<1> QED BY <1>2, <1>3

\* What is left in the pipe after its head was taken.
LEMMA PipeBehind ==
  ASSUME Shapes, NEW s \in Stream, Flow(s), UNCHANGED <<child, log>>,
         pipe[s] # << >>, pipe'[s] = Tail(pipe[s])
  PROVE  /\ PlacePipe(s)'
         /\ \A i \in Logged(s), k \in DOMAIN pipe'[s] : log[i].n < pipe'[s][k].n
         /\ \A i \in InQueue(s), k \in DOMAIN pipe'[s] : queue[i].n < pipe'[s][k].n
         /\ \A k \in DOMAIN pipe'[s] : Head(pipe[s]).n < pipe'[s][k].n
         /\ Head(pipe[s]).n \in Written(s) /\ Head(pipe[s]).kind = child.kind /\ Head(pipe[s]).stream = s
         /\ \A i \in Logged(s) : log[i].n < Head(pipe[s]).n
         /\ \A i \in InQueue(s) : queue[i].n < Head(pipe[s]).n
         /\ \A m : OnPipe(s, m) => m = Head(pipe[s]).n \/ (OnPipe(s, m)' /\ Head(pipe[s]).n < m)
<1>1. PlacePipe(s) /\ PlaceOrder(s)
  BY DEF Flow
<1>2. Written(s)' = Written(s)
  BY DEF Written
<1>3. /\ 1 \in DOMAIN pipe[s] /\ pipe[s][1] = Head(pipe[s])
      /\ \A i \in DOMAIN pipe'[s] : i + 1 \in DOMAIN pipe[s] /\ 1 < i + 1 /\ pipe'[s][i] = pipe[s][i + 1]
      /\ \A i \in DOMAIN pipe[s] :
              i = 1 \/ (i - 1 \in DOMAIN pipe'[s] /\ 1 < i /\ pipe'[s][i - 1] = pipe[s][i])
      /\ \A i, k \in DOMAIN pipe'[s] : i < k => i + 1 < k + 1
  BY PipeTail
<1>4. PlacePipe(s)'
  BY <1>1, <1>2, <1>3 DEF PlacePipe
<1>5. /\ \A i \in Logged(s), k \in DOMAIN pipe'[s] : log[i].n < pipe'[s][k].n
      /\ \A i \in InQueue(s), k \in DOMAIN pipe'[s] : queue[i].n < pipe'[s][k].n
      /\ \A i \in Logged(s) : log[i].n < Head(pipe[s]).n
      /\ \A i \in InQueue(s) : queue[i].n < Head(pipe[s]).n
  BY <1>1, <1>3 DEF PlaceOrder
<1>6. /\ \A k \in DOMAIN pipe'[s] : Head(pipe[s]).n < pipe'[s][k].n
      /\ Head(pipe[s]).n \in Written(s) /\ Head(pipe[s]).kind = child.kind /\ Head(pipe[s]).stream = s
  BY <1>1, <1>3 DEF PlacePipe
<1>7. \A m : OnPipe(s, m) => m = Head(pipe[s]).n \/ (OnPipe(s, m)' /\ Head(pipe[s]).n < m)
  BY <1>1, <1>3 DEF OnPipe, PlacePipe
<1> QED BY <1>4, <1>5, <1>6, <1>7

LEMMA DrainFlow ==
  ASSUME Shapes, Flows, NEW s \in Stream, Drain(s), NEW x \in Stream
  PROVE  Flow(x)'
<1>0. PICK head : head = Head(pipe[s])
  OBVIOUS
<1>1. /\ reader[s] = "reading" /\ UNCHANGED <<child, log, open>>
      /\ \A y \in Stream : y # s => pipe'[y] = pipe[y] /\ reader'[y] = reader[y]
      /\ ReadsLine(s) \/ ReadsNoMore(s)
  BY DrainFacts
<1>2. PICK e \in Line \cup {Sentinel} :
        queue' = Append(queue, e) /\ (e = Sentinel \/ (ReadsLine(s) /\ e = head))
  BY <1>0, <1>1, PipeTail DEF ReadsLine, ReadsNoMore
<1>3. /\ Len(queue) \in Nat /\ DOMAIN queue = 1 .. Len(queue)
      /\ DOMAIN queue' = DOMAIN queue \cup {Len(queue) + 1} /\ Len(queue) + 1 \notin DOMAIN queue
      /\ queue'[Len(queue) + 1] = e
      /\ \A i \in DOMAIN queue : queue'[i] = queue[i] /\ i < Len(queue) + 1
  BY <1>2, QueueAppend
<1>4. \A y \in Stream : /\ Logged(y)' = Logged(y) /\ Written(y)' = Written(y) /\ Readable(y)' = Readable(y)
                        /\ Unwritten(y)' = Unwritten(y)
  BY <1>1 DEF Logged, Written, Readable, Unwritten
<1>5. Flow(s) /\ Flow(x)
  BY DEF Flows
<1>6. CASE x # s
  <2>1. e = Sentinel \/ e.stream # x
    <3> SUFFICES ASSUME ReadsLine(s) PROVE head.stream # x
      BY <1>2
    <3> QED BY <1>0, <1>1, <1>5, <1>6, PipeBehind DEF ReadsLine
  <2>2. InQueue(x)' = InQueue(x) /\ \A i \in InQueue(x) : queue'[i] = queue[i]
    BY <1>3, <2>1 DEF InQueue
  <2> QED BY <1>1, <1>4, <1>5, <1>6, <2>2, FlowKept
<1>7. CASE x = s /\ ReadsLine(s)
  <2>1. /\ pipe[s] # << >> /\ child.program[head.n].fits /\ queue' = Append(queue, head)
        /\ pipe'[s] = Tail(pipe[s]) /\ reader'[s] = "reading"
    BY <1>0, <1>7 DEF ReadsLine
  <2>2. /\ head \in Line /\ head # Sentinel
    BY <1>0, <2>1, PipeTail, LineNotSentinel
  <2>3. e = head
    <3>1. Len(queue) + 1 \in DOMAIN queue' /\ queue'[Len(queue) + 1] = head
      BY <2>1, <2>2, QueueAppend
    <3> QED BY <1>3, <3>1
  <2>4. /\ PlacePipe(s)'
        /\ \A i \in Logged(s), k \in DOMAIN pipe'[s] : log[i].n < pipe'[s][k].n
        /\ \A i \in InQueue(s), k \in DOMAIN pipe'[s] : queue[i].n < pipe'[s][k].n
        /\ \A k \in DOMAIN pipe'[s] : head.n < pipe'[s][k].n
        /\ head.n \in Written(s) /\ head.kind = child.kind /\ head.stream = s
        /\ \A i \in Logged(s) : log[i].n < head.n
        /\ \A i \in InQueue(s) : queue[i].n < head.n
        /\ \A m : OnPipe(s, m) => m = head.n \/ (OnPipe(s, m)' /\ head.n < m)
    BY <1>0, <1>1, <1>5, <2>1, PipeBehind
  <2>5. Written(s) \subseteq Nat
    BY DEF Shapes, Written
  <2>6. head.n \in Readable(s)
    <3> SUFFICES ASSUME NEW m \in Written(s), m <= head.n
                 PROVE  child.program[m].fits
      BY <2>4 DEF Readable
    <3>1. ~ Nowhere(s, m)
      BY <1>1, <1>5 DEF Flow, Covered
    <3>2. CASE OnLog(s, m) \/ OnQueue(s, m)
      <4>1. m \in Readable(s)
        BY <1>5, <3>2 DEF Flow, PlaceLog, PlaceQueue, OnLog, OnQueue
      <4> QED BY <2>5, <4>1 DEF Readable
    <3>3. CASE OnPipe(s, m)
      BY <2>1, <2>4, <2>5, <3>3
    <3> QED BY <3>1, <3>2, <3>3 DEF Nowhere
  <2>7. InQueue(s)' = InQueue(s) \cup {Len(queue) + 1} /\ \A i \in InQueue(s) : queue'[i] = queue[i] /\ i < Len(queue) + 1
    BY <1>3, <2>2, <2>3, <2>4 DEF InQueue
  <2>8. PlaceLog(s)'
    BY <1>1, <1>4, <1>5 DEF Flow, PlaceLog
  <2>9. PlaceQueue(s)'
    <3>1. PlaceQueue(s)
      BY <1>5 DEF Flow
    <3>2. \A i, k \in InQueue(s)' : i < k => i \in InQueue(s)
      BY <1>3, <2>7 DEF InQueue
    <3> QED BY <1>1, <1>3, <1>4, <2>3, <2>4, <2>6, <2>7, <3>1, <3>2 DEF PlaceQueue
  <2>10. PlaceOrder(s)'
    <3>1. PlaceOrder(s)
      BY <1>5 DEF Flow
    <3> QED BY <1>1, <1>3, <1>4, <2>3, <2>4, <2>7, <3>1 DEF PlaceOrder
  <2>11. /\ OnQueue(s, head.n)'
         /\ \A m : (OnLog(s, m) => OnLog(s, m)') /\ (OnQueue(s, m) => OnQueue(s, m)')
    <3>1. Len(queue) + 1 \in InQueue(s)' /\ queue'[Len(queue) + 1].n = head.n
      BY <1>3, <2>3, <2>7
    <3>2. OnQueue(s, head.n)'
      BY <3>1 DEF OnQueue
    <3>3. \A m : OnQueue(s, m) => OnQueue(s, m)'
      BY <2>7 DEF OnQueue
    <3>4. \A m : OnLog(s, m) => OnLog(s, m)'
      BY <1>1, <1>4 DEF OnLog
    <3> QED BY <3>2, <3>3, <3>4
  <2>12. Covered(s)'
    BY <1>1, <1>4, <1>5, <2>1, <2>4, <2>11 DEF Flow, Covered, Nowhere
  <2> QED BY <1>7, <2>4, <2>8, <2>9, <2>10, <2>12 DEF Flow
<1>8. CASE x = s /\ ReadsNoMore(s)
  <2>1. queue' = Append(queue, Sentinel) /\ reader'[s] = "gone"
    BY <1>8 DEF ReadsNoMore
  <2>2. InQueue(s)' = InQueue(s) /\ \A i \in InQueue(s) : queue'[i] = queue[i]
    <3>1. queue'[Len(queue) + 1] = Sentinel
      BY <2>1, QueueAppend
    <3> QED BY <1>3, <3>1 DEF InQueue
  <2>3. Written(s) \subseteq Nat
    BY DEF Shapes, Written
  <2>4. \A m : (OnLog(s, m) => OnLog(s, m)') /\ (OnQueue(s, m) => OnQueue(s, m)')
    BY <1>1, <1>4, <2>2 DEF OnLog, OnQueue
  <2>5. CASE pipe[s] # << >> /\ ~ child.program[head.n].fits /\ pipe'[s] = Tail(pipe[s])
    <3>1. /\ PlacePipe(s)'
          /\ \A i \in Logged(s), k \in DOMAIN pipe'[s] : log[i].n < pipe'[s][k].n
          /\ \A i \in InQueue(s), k \in DOMAIN pipe'[s] : queue[i].n < pipe'[s][k].n
          /\ head.n \in Written(s)
          /\ \A m : OnPipe(s, m) => m = head.n \/ head.n < m
      BY <1>0, <1>1, <1>5, <2>5, PipeBehind
    <3>2. \A m \in Readable(s) : OnLog(s, m)' \/ OnQueue(s, m)'
      <4> SUFFICES ASSUME NEW m \in Readable(s) PROVE OnLog(s, m) \/ OnQueue(s, m)
        BY <2>4
      <4>1. m \in Written(s) /\ (head.n <= m => child.program[head.n].fits)
        BY <3>1 DEF Readable
      <4>2. ~ OnPipe(s, m)
        BY <2>3, <2>5, <3>1, <4>1
      <4> QED BY <1>1, <1>5, <4>1, <4>2 DEF Flow, Covered, Nowhere
    <3>3. Covered(s)'
      BY <1>1, <1>4, <1>5, <2>1, <2>5, <3>1, <3>2 DEF Flow, Covered
    <3>4. PlaceOrder(s)' /\ PlaceLog(s)' /\ PlaceQueue(s)'
      BY <1>1, <1>4, <1>5, <2>2, <3>1 DEF Flow, PlaceOrder, PlaceLog, PlaceQueue
    <3> QED BY <1>8, <3>1, <3>3, <3>4 DEF Flow
  <2>6. CASE pipe[s] = << >> /\ ~ open[s] /\ pipe'[s] = pipe[s]
    <3>1. \A m : ~ OnPipe(s, m)
      <4>1. DOMAIN pipe[s] = {}
        BY <2>6, EmptySeq
      <4> QED BY <4>1 DEF OnPipe
    <3>2. \A m \in Readable(s) : OnLog(s, m)' \/ OnQueue(s, m)'
      BY <1>1, <1>5, <2>4, <3>1 DEF Flow, Covered, Nowhere, Readable
    <3>3. Covered(s)'
      BY <1>1, <1>4, <1>5, <2>1, <2>6, <3>2 DEF Flow, Covered
    <3>4. PlacePipe(s)' /\ PlaceOrder(s)' /\ PlaceLog(s)' /\ PlaceQueue(s)'
      BY <1>1, <1>4, <1>5, <2>2, <2>6 DEF Flow, PlacePipe, PlaceOrder, PlaceLog, PlaceQueue
    <3> QED BY <1>8, <3>3, <3>4 DEF Flow
  <2> QED BY <1>0, <1>8, <2>5, <2>6 DEF ReadsNoMore
<1> QED BY <1>1, <1>6, <1>7, <1>8
LEMMA QueueTail ==
  ASSUME Shapes, queue # << >>, queue' = Tail(queue), NEW x \in Stream
  PROVE  /\ 1 \in DOMAIN queue /\ queue[1] = Head(queue) /\ Head(queue) \in Line \cup {Sentinel}
         /\ \A i \in InQueue(x)' :
              i + 1 \in InQueue(x) /\ 1 \in Int /\ 1 < i + 1 /\ queue'[i] = queue[i + 1]
         /\ \A i \in InQueue(x) :
              i = 1 \/ (i - 1 \in InQueue(x)' /\ 1 < i /\ queue'[i - 1] = queue[i])
         /\ \A i, k \in InQueue(x)' : i < k => i + 1 < k + 1
<1>1. queue \in Seq(Line \cup {Sentinel})
  BY DEF Shapes
<1>2. /\ Head(queue) \in Line \cup {Sentinel} /\ Head(queue) = queue[1]
      /\ Len(queue) \in Nat \ {0}
      /\ DOMAIN queue = 1 .. Len(queue) /\ DOMAIN queue' = 1 .. Len(queue) - 1
      /\ \A i \in 1 .. Len(queue) - 1 : queue'[i] = queue[i + 1]
  BY <1>1, TailFacts
<1>3. \A i \in DOMAIN queue' : i + 1 \in DOMAIN queue /\ 1 < i + 1 /\ queue'[i] = queue[i + 1]
  BY <1>2
<1>4. \A i \in DOMAIN queue :
        i = 1 \/ (i - 1 \in DOMAIN queue' /\ 1 < i /\ queue'[i - 1] = queue[i])
  <2> SUFFICES ASSUME NEW i \in DOMAIN queue, i # 1
               PROVE  i - 1 \in DOMAIN queue' /\ 1 < i /\ queue'[i - 1] = queue[i]
    OBVIOUS
  <2>1. i \in Nat /\ i - 1 \in 1 .. Len(queue) - 1 /\ 1 < i /\ (i - 1) + 1 = i
    BY <1>2
  <2> QED BY <1>2, <2>1
<1>5. \A i, k \in DOMAIN queue' : i < k => i + 1 < k + 1
  BY <1>2
<1> QED BY <1>2, <1>3, <1>4, <1>5 DEF InQueue

\* A line is taken from the queue, and logged, or a sentinel is.
Takes(e) ==
  /\ queue # << >> /\ e = Head(queue) /\ queue' = Tail(queue)
  /\ UNCHANGED <<child, open, pipe, reader>>
  /\ (e = Sentinel /\ UNCHANGED log) \/ (e # Sentinel /\ e \in Line /\ log' = Append(log, Relayed(e)))

LEMMA TakeFacts ==
  ASSUME Shapes, Take
  PROVE  \E e \in Line \cup {Sentinel} : Takes(e)
<1>1. Head(queue) \in Line \cup {Sentinel}
  BY TailFacts DEF Take, Shapes
<1> QED BY <1>1 DEF Take, Takes, Yield, Silently, childVars

LEMMA TakeFlow ==
  ASSUME Shapes, Flows, NEW e \in Line \cup {Sentinel}, Takes(e), NEW x \in Stream
  PROVE  Flow(x)'
<1>1. /\ queue # << >> /\ e = Head(queue) /\ queue' = Tail(queue)
      /\ UNCHANGED <<child, open, pipe, reader>>
      /\ (e = Sentinel /\ UNCHANGED log) \/ (e # Sentinel /\ e \in Line /\ log' = Append(log, Relayed(e)))
  BY DEF Takes
<1>2. /\ 1 \in DOMAIN queue /\ queue[1] = e
      /\ \A i \in InQueue(x)' : i + 1 \in InQueue(x) /\ 1 < i + 1 /\ queue'[i] = queue[i + 1]
      /\ \A i \in InQueue(x) :
              i = 1 \/ (i - 1 \in InQueue(x)' /\ 1 < i /\ queue'[i - 1] = queue[i])
      /\ \A i, k \in InQueue(x)' : i < k => i + 1 < k + 1
  BY <1>1, QueueTail
<1>3. PlaceLog(x) /\ PlaceQueue(x) /\ PlacePipe(x) /\ PlaceOrder(x) /\ Covered(x)
  BY DEF Flows, Flow
<1>4. Written(x)' = Written(x) /\ Readable(x)' = Readable(x) /\ Unwritten(x)' = Unwritten(x)
  BY <1>1 DEF Written, Readable, Unwritten
<1>5. PlaceQueue(x)' /\ PlacePipe(x)'
  BY <1>1, <1>2, <1>3, <1>4 DEF PlaceQueue, PlacePipe
<1>6. \A m : OnPipe(x, m) => OnPipe(x, m)'
  BY <1>1 DEF OnPipe
<1>7. ASSUME \A m : OnLog(x, m) => OnLog(x, m)', \A m : OnQueue(x, m) => OnLog(x, m)' \/ OnQueue(x, m)'
      PROVE  Covered(x)'
  BY <1>1, <1>3, <1>4, <1>6, <1>7 DEF Covered, Nowhere
<1>8. CASE e = Sentinel \/ e.stream # x
  <2>1. 1 \notin InQueue(x)
    BY <1>2, <1>8 DEF InQueue
  <2>2. Logged(x)' = Logged(x) /\ \A i \in Logged(x) : log'[i] = log[i]
    <3>1. CASE UNCHANGED log
      BY <1>1, <3>1 DEF Logged
    <3>2. CASE e \in Line /\ e # Sentinel /\ log' = Append(log, Relayed(e))
      BY <1>1, <1>8, <3>2, LogAppend, RelayedFacts DEF Logged
    <3> QED BY <1>1, <3>1, <3>2
  <2>3. PlaceLog(x)' /\ PlaceOrder(x)'
    <3>1. PlaceLog(x)'
      BY <1>1, <1>3, <1>4, <2>2 DEF PlaceLog
    <3>2. \A i \in Logged(x), k \in InQueue(x)' : log[i].n < queue'[k].n
      BY <1>2, <1>3 DEF PlaceOrder
    <3>3. \A i \in InQueue(x)', k \in DOMAIN pipe[x] : queue'[i].n < pipe[x][k].n
      BY <1>2, <1>3 DEF PlaceOrder
    <3>4. \A i \in Logged(x), k \in DOMAIN pipe[x] : log[i].n < pipe[x][k].n
      BY <1>3 DEF PlaceOrder
    <3> QED BY <1>1, <2>2, <3>1, <3>2, <3>3, <3>4 DEF PlaceOrder
  <2>4. \A m : (OnLog(x, m) => OnLog(x, m)') /\ (OnQueue(x, m) => OnQueue(x, m)')
    BY <1>2, <2>1, <2>2 DEF OnLog, OnQueue
  <2> QED BY <1>3, <1>5, <1>7, <2>3, <2>4 DEF Flow
<1>9. CASE e \in Line /\ e # Sentinel /\ e.stream = x /\ log' = Append(log, Relayed(e))
  <2>0. /\ Relayed(e) \in LogLine
        /\ Relayed(e).kind = e.kind /\ Relayed(e).stream = e.stream /\ Relayed(e).n = e.n
    BY <1>9, RelayedFacts
  <2>1. 1 \in InQueue(x)
    BY <1>2, <1>9 DEF InQueue
  <2>2. e.kind = child.kind /\ e.n \in Readable(x)
    BY <1>2, <1>3, <2>1 DEF PlaceQueue
  <2>3. /\ Len(log) \in Nat /\ DOMAIN log = 1 .. Len(log)
        /\ DOMAIN log' = DOMAIN log \cup {Len(log) + 1} /\ Len(log) + 1 \notin DOMAIN log
        /\ log'[Len(log) + 1] = Relayed(e)
        /\ \A i \in DOMAIN log : log'[i] = log[i]
    BY <1>9, <2>0, LogAppend
  <2>4. /\ Logged(x)' = Logged(x) \cup {Len(log) + 1}
        /\ \A i \in Logged(x) : log'[i] = log[i] /\ i \in 1 .. Len(log)
    BY <1>1, <1>9, <2>0, <2>2, <2>3 DEF Logged
  <2>5. PlaceLog(x)'
    <3>1. \A i \in Logged(x) : log[i].n < e.n
      BY <1>2, <1>3, <2>1 DEF PlaceOrder
    <3>2. \A i, k \in Logged(x)' : i < k => i \in Logged(x)
      BY <2>3, <2>4
    <3>3. \A i \in Logged(x)' : log'[i].n \in Readable(x)'
      BY <1>3, <1>4, <2>0, <2>2, <2>3, <2>4 DEF PlaceLog
    <3>4. \A i, k \in Logged(x)' : i < k => log'[i].n < log'[k].n
      BY <1>3, <2>0, <2>3, <2>4, <3>1, <3>2 DEF PlaceLog
    <3>5. \A i \in Logged(x)' :
            child'.kind = "pip" /\ log'[i].cut => child'.program[log'[i].n].first # "other"
      <4>1. child.kind = "pip" /\ Relayed(e).cut => child.program[e.n].first # "other"
        BY <1>9, <2>2, CutFacts
      <4> QED BY <1>1, <1>3, <2>0, <2>3, <2>4, <4>1 DEF PlaceLog
    <3> QED BY <3>3, <3>4, <3>5 DEF PlaceLog
  <2>6. PlaceOrder(x)'
    <3>1. \A k \in InQueue(x)' : e.n < queue'[k].n
      BY <1>2, <1>3, <2>1 DEF PlaceQueue
    <3>2. \A k \in DOMAIN pipe[x] : e.n < pipe[x][k].n
      BY <1>2, <1>3, <2>1 DEF PlaceOrder
    <3>3. \A i \in Logged(x)' : (i \in Logged(x) /\ log'[i] = log[i]) \/ log'[i].n = e.n
      BY <2>0, <2>3, <2>4
    <3>4. \A i \in Logged(x)', k \in InQueue(x)' : log'[i].n < queue'[k].n
      BY <1>2, <1>3, <3>1, <3>3 DEF PlaceOrder
    <3>5. \A i \in Logged(x)', k \in DOMAIN pipe'[x] : log'[i].n < pipe'[x][k].n
      BY <1>1, <1>3, <3>2, <3>3 DEF PlaceOrder
    <3>6. \A i \in InQueue(x)', k \in DOMAIN pipe'[x] : queue'[i].n < pipe'[x][k].n
      BY <1>1, <1>2, <1>3 DEF PlaceOrder
    <3> QED BY <3>4, <3>5, <3>6 DEF PlaceOrder
  <2>7. Len(log) + 1 \in Logged(x)' /\ log'[Len(log) + 1].n = e.n
    BY <2>0, <2>3, <2>4
  <2>8. \A m : OnLog(x, m) => OnLog(x, m)'
    BY <2>4 DEF OnLog
  <2>9. \A m : OnQueue(x, m) => OnLog(x, m)' \/ OnQueue(x, m)'
    BY <1>2, <2>7 DEF OnLog, OnQueue
  <2> QED BY <1>3, <1>5, <1>7, <2>5, <2>6, <2>8, <2>9 DEF Flow
<1> QED BY <1>1, <1>8, <1>9

LEMMA SpawnFlow ==
  ASSUME TypeOK, Shapes, NEW kind \in {"pip", "script"}, NEW program \in Seq(Op), Spawn(kind, program),
         UNCHANGED log, \A i \in DOMAIN log : log[i].kind # kind, NEW x \in Stream
  PROVE  Flow(x)'
<1>1. /\ child'.kind = kind /\ child'.program = program /\ child'.at = 0
      /\ pipe'[x] = << >> /\ open'[x] /\ reader'[x] = "reading" /\ queue' = << >>
  BY SpawnType
<1>2. Written(x)' = {}
  BY <1>1 DEF Written
<1>3. Readable(x)' = {}
  BY <1>2 DEF Readable
<1>4. Logged(x)' = {}
  BY <1>1 DEF Logged
<1>5. InQueue(x)' = {} /\ DOMAIN pipe'[x] = {}
  BY <1>1, EmptySeq DEF InQueue
<1>6. PlaceLog(x)' /\ PlaceQueue(x)' /\ PlacePipe(x)' /\ PlaceOrder(x)'
  BY <1>4, <1>5 DEF PlaceLog, PlaceQueue, PlacePipe, PlaceOrder
<1>7. Covered(x)'
  BY <1>1, <1>2, <1>3 DEF Covered
<1> QED BY <1>6, <1>7 DEF Flow
\* Where a run can come from that stands at one of the stages about a subprocess.
Early    == {"start", "create", "created"}
Before   == Early \cup {"pip", "pipwait", "installed", "launch"}
Awaiting == {"pipwait", "wait", "expired"}
Onward ==
  /\ UNCHANGED job
  /\ stage' \in Streaming => stage' = stage
  /\ stage' \in Awaiting => stage \in Awaiting
  /\ stage' \in Early => stage \in Early
  /\ stage' \in Before => stage \in Before
  /\ stage' = "success" /\ job.mode = "venv" => stage \in {"wait", "success"}
  /\ status' = "success" => status = "success" \/ stage = "success"

\* Whatever else happens only logs what no subprocess printed, and may be its death.
Passive ==
  /\ Onward
  /\ child'.kind = child.kind /\ child'.program = child.program /\ child'.at = child.at
  /\ child'.alive => child.alive
  /\ UNCHANGED <<open, pipe, reader, queue, finished>>
  /\ UNCHANGED log \/ \E e \in LogLine : log' = Append(log, e) /\ e.kind \notin {"pip", "script"}

LEMMA SaysLog ==
  ASSUME NEW next, Says(next)
  PROVE  UNCHANGED log \/ \E e \in LogLine : log' = Append(log, e) /\ e.kind = "notice"
<1>1. \A text \in NoticeText : Notice(text) \in LogLine /\ Notice(text).kind = "notice"
  BY NoticeLogged DEF Notice
<1> QED BY <1>1 DEF Says, Yield, Silently

LEMMA VenvPassive ==
  ASSUME Shapes,
         CreateVenv \/ PipEnds \/ Installed \/ Finish \/ Expire \/ Kill \/ EndVenv \/ CancelVenv
           \/ Finalize \/ Exit
  PROVE  Passive
<1>1. UNCHANGED <<open, pipe, reader, queue, finished>>
  BY DEF CreateVenv, PipEnds, Installed, Finish, Expire, Kill, EndVenv, CancelVenv, Finalize, Exit,
         childVars, muxVars
<1>2. /\ child'.kind = child.kind /\ child'.program = child.program /\ child'.at = child.at
      /\ child'.alive => child.alive
  BY DEF CreateVenv, PipEnds, Installed, Finish, Expire, Kill, EndVenv, CancelVenv, Finalize, Exit,
         childVars, muxVars, Shapes
<1>3. UNCHANGED log \/ \E next : Says(next)
  <2>1. CASE EndVenv \/ CancelVenv \/ Finalize \/ Exit
    BY <2>1 DEF EndVenv, CancelVenv, Finalize, Exit, Conclude, CutOff, outputVars
  <2>2. CASE CreateVenv \/ PipEnds \/ Installed \/ Finish \/ Expire \/ Kill
    BY <2>2 DEF CreateVenv, PipEnds, Installed, Finish, Expire, Kill, Says, NoticeText
  <2> QED BY <2>1, <2>2
<1>4. UNCHANGED log \/ \E e \in LogLine : log' = Append(log, e) /\ e.kind \notin {"pip", "script"}
  BY <1>3, SaysLog
<1>5. Onward
  <2> USE DEF Onward, Streaming, Awaiting, Early, Before
  <2>1. CASE EndVenv \/ CancelVenv
    BY <2>1 DEF EndVenv, CancelVenv, Conclude, CutOff
  <2>2. CASE Finalize \/ Exit
    BY <2>2 DEF Finalize, Exit, outputVars
  <2>3. CASE CreateVenv \/ PipEnds \/ Installed
    BY <2>3 DEF CreateVenv, PipEnds, Installed, Yield, Silently
  <2>4. CASE Finish \/ Expire \/ Kill
    BY <2>4 DEF Finish, Expire, Kill, Yield, Silently
  <2> QED BY <2>1, <2>2, <2>3, <2>4
<1> QED BY <1>1, <1>2, <1>4, <1>5 DEF Passive

\* The steps of a Docker executor but for ReadChunk give notices or log nothing.
LEMMA DockerLogs ==
  ASSUME DockerNext
  PROVE  UNCHANGED log \/ (\E next : Says(next)) \/ ReadChunk
<1>1. CASE Prepare \/ Connect \/ Rejected \/ Timed \/ StreamEnds \/ StreamBreaks
  BY <1>1 DEF Prepare, Connect, Rejected, Timed, StreamEnds, StreamBreaks, Raise, Says, NoticeText
<1>2. CASE Build \/ StartContainer \/ Attach \/ WaitContainer
  BY <1>2 DEF Build, StartContainer, Attach, WaitContainer, Raise, Says, NoticeText
<1>3. CASE BeginCleanup \/ GetContainer \/ RemoveContainer \/ RemoveImage
  BY <1>3 DEF BeginCleanup, GetContainer, RemoveContainer, RemoveImage, Says
<1>4. CASE EndDocker \/ CancelDocker \/ ContainerPrints \/ ContainerExits \/ \E request \in Request : Late(request)
  BY <1>4 DEF EndDocker, CancelDocker, ContainerPrints, ContainerExits, Late, Conclude, CutOff, outputVars
<1> QED BY <1>1, <1>2, <1>3, <1>4 DEF DockerNext, DockerRuns, DaemonAnswers

LEMMA OutputLogs ==
  ASSUME OutputStep
  PROVE  UNCHANGED log \/ \E next : Says(next)
  BY DEF OutputStep, Deliver, Start, Persist, Close, Silently, Send, Register, Drop, Unregister, Says, NoticeText

LEMMA OtherPassive ==
  ASSUME TypeOK, Shapes, OneExecutor, Undisturbed, DockerStep \/ OutputStep \/ UNCHANGED vars
  PROVE  Passive
<1>1. UNCHANGED <<child, open, pipe, reader, queue, finished>>
  BY DEF DockerStep, OutputStep, vars, venvVars, childVars, muxVars
<1>2. UNCHANGED log \/ \E e \in LogLine : log' = Append(log, e) /\ e.kind \notin {"pip", "script"}
  <2>1. CASE ReadChunk
    <3>1. Chunk(Cardinality(Chunks) + 1) \in LogLine
      BY ChunksFinite, ChunkLogged DEF Shapes
    <3>2. Chunk(Cardinality(Chunks) + 1).kind = "container"
      BY DEF Chunk
    <3>3. log' = Append(log, Chunk(Cardinality(Chunks) + 1))
      BY <2>1 DEF ReadChunk, Yield
    <3> QED BY <3>1, <3>2, <3>3
  <2>2. CASE UNCHANGED log \/ \E next : Says(next)
    BY <2>2, SaysLog
  <2>3. UNCHANGED vars => UNCHANGED log
    BY DEF vars, outputVars
  <2> QED BY <2>1, <2>2, <2>3, DockerLogs, OutputLogs DEF DockerStep
<1>3. Onward
  <2> USE DEF Onward, Streaming, Awaiting, Early, Before
  <2>1. CASE DockerStep
    <3>1. job.mode = "docker"
      BY <2>1, DockerMoves DEF DockerStep
    <3>2. \/ UNCHANGED outputVars
          \/ Generates(DockerExecuting, DockerExecuting \cup Outcome) \/ CleansUp \/ EndDocker \/ CancelDocker
      BY <2>1, DockerMoves DEF DockerStep
    <3>3. CASE Generates(DockerExecuting, DockerExecuting \cup Outcome)
      BY <3>1, <3>3 DEF Generates, DockerExecuting, Outcome
    <3>4. CASE CleansUp
      BY <3>4 DEF CleansUp, Cleanup
    <3>5. CASE EndDocker \/ CancelDocker
      BY <3>5 DEF EndDocker, CancelDocker, Conclude, CutOff
    <3> QED BY <3>2, <3>3, <3>4, <3>5 DEF outputVars
  <2>2. CASE OutputStep
    BY <2>2 DEF OutputStep, Deliver, Start, Yield, Persist, Close, Silently, Send, Register, Drop, Unregister
  <2>3. CASE UNCHANGED vars
    BY <2>3 DEF vars, outputVars
  <2> QED BY <2>1, <2>2, <2>3
<1> QED BY <1>1, <1>2, <1>3 DEF Passive

LEMMA PassiveFlow ==
  ASSUME Shapes, Flows, Passive, NEW s \in Stream
  PROVE  Flow(s)'
<1>1. Logged(s)' = Logged(s) /\ \A i \in Logged(s) : log'[i] = log[i]
  BY OthersKept DEF Passive
<1>2. InQueue(s)' = InQueue(s)
  BY DEF InQueue, Passive
<1> QED BY <1>1, <1>2, FlowKept DEF Passive, Flows

LEMMA CloseFlow ==
  ASSUME Shapes, Flows, NEW x \in Stream, CloseStream(x), NEW s \in Stream
  PROVE  Flow(s)'
<1>1. UNCHANGED <<child, pipe, reader, queue, log>>
  BY DEF CloseStream, outputVars, muxVars
<1>2. Logged(s)' = Logged(s) /\ InQueue(s)' = InQueue(s)
  BY <1>1 DEF Logged, InQueue
<1>3. open[s] /\ ~ open'[s] => ~ child.alive \/ Unwritten(s) = {}
  <2>1. s # x => open'[s] = open[s]
    BY DEF CloseStream, Shapes
  <2>2. s = x => (child.alive => Unwritten(s) = {})
    BY DEF CloseStream
  <2> QED BY <2>1, <2>2
<1> QED BY <1>1, <1>2, <1>3, FlowKept DEF Flows

\* A process that is started, and which one.
Starts(kind, program) ==
  /\ Spawn(kind, program) /\ UNCHANGED <<job, log, status>>
  /\ \/ kind = "pip" /\ stage = "created" /\ stage' = "pip" /\ program = job.installs
     \/ kind = "script" /\ stage = "launch" /\ stage' = "script" /\ program = job.script

LEMMA StartsOrSays ==
  ASSUME Shapes, Install \/ Launch
  PROVE  Passive \/ Starts("pip", job.installs) \/ Starts("script", job.script)
<1>1. CASE /\ UNCHANGED <<childVars, muxVars>>
           /\ Yield(Notice("error"), "failed") \/ Yield(Notice("running"), "launch")
  <2>1. \E next \in {"launch", "failed"} : Says(next) /\ stage \in {"created", "launch"}
    BY <1>1 DEF Install, Launch, Says, NoticeText
  <2>3. Onward
    BY <2>1 DEF Onward, Streaming, Awaiting, Early, Before, Says, Yield, Silently
  <2>2. UNCHANGED log \/ \E e \in LogLine : log' = Append(log, e) /\ e.kind \notin {"pip", "script"}
    BY <2>1, SaysLog
  <2> QED BY <1>1, <2>2, <2>3 DEF Passive, childVars, muxVars
<1>2. CASE Install /\ Spawn("pip", job.installs) /\ Silently("pip")
  <2>1. stage = "created"
    BY <1>2 DEF Install
  <2>2. UNCHANGED <<job, log, status>> /\ stage' = "pip"
    BY <1>2 DEF Silently
  <2> QED BY <1>2, <2>1, <2>2 DEF Starts
<1>3. CASE Launch /\ Spawn("script", job.script) /\ Silently("script")
  BY <1>3 DEF Starts, Launch, Silently
<1> QED BY <1>1, <1>2, <1>3 DEF Install, Launch

LEMMA StartsFlow ==
  ASSUME TypeOK, Shapes, Fresh, NEW s \in Stream,
         Starts("pip", job.installs) \/ Starts("script", job.script)
  PROVE  Flow(s)'
  BY JobShape, SpawnFlow DEF Starts, Fresh

\* The steps that move lines, and all others.
LEMMA LineMoves ==
  ASSUME TypeOK, Shapes, OneExecutor, Undisturbed, [Next]_vars
  PROVE  \/ Passive
         \/ /\ UNCHANGED dockerVars
            /\ \/ Starts("pip", job.installs) \/ Starts("script", job.script) \/ Take \/ Write
               \/ \E s \in Stream : CloseStream(s) \/ Drain(s)
  BY VenvPassive, OtherPassive, StartsOrSays DEF Next, VenvStep, VenvNext, VenvRuns

LEMMA FlowsStep ==
  ASSUME TypeOK, Shapes, OneExecutor, Undisturbed, Flows, Fresh, [Next]_vars
  PROVE  Flows'
<1> SUFFICES ASSUME NEW x \in Stream PROVE Flow(x)'
  BY DEF Flows
<1>1. CASE Passive
  BY <1>1, PassiveFlow
<1>2. CASE Starts("pip", job.installs) \/ Starts("script", job.script)
  BY <1>2, StartsFlow
<1>3. CASE Take
  BY <1>3, TakeFacts, TakeFlow
<1>4. CASE Write
  BY <1>4, WriteFacts, WriteFlow
<1>5. ASSUME NEW s \in Stream, CloseStream(s) \/ Drain(s) PROVE Flow(x)'
  BY <1>5, CloseFlow, DrainFlow
<1> QED BY <1>1, <1>2, <1>3, <1>4, <1>5, LineMoves
--------------------------------------------------------------------------------
(* The sentinels: one for each reader that has gone.                       *)

LEMMA ShiftedCount ==
  ASSUME NEW A \in SUBSET Int, NEW B \in SUBSET Int, IsFiniteSet(B),
         \A i \in A : i + 1 \in B, \A j \in B : j - 1 \in A
  PROVE  IsFiniteSet(A) /\ Cardinality(A) = Cardinality(B)
<1> DEFINE f == [i \in A |-> i + 1]
<1>1. f \in [A -> B] /\ \A i \in A : f[i] = i + 1
  OBVIOUS
<1>2. \A i, k \in A : f[i] = f[k] => i = k
  BY <1>1
<1>3. \A j \in B : \E i \in A : f[i] = j
  <2> SUFFICES ASSUME NEW j \in B PROVE \E i \in A : f[i] = j
    OBVIOUS
  <2>1. j - 1 \in A /\ f[j - 1] = j
    BY <1>1
  <2> QED BY <2>1
<1>4. DOMAIN f = A
  OBVIOUS
<1> HIDE DEF f
<1>5. f \in Injection(A, B)
  BY <1>1, <1>2, <1>4 DEF Injection, IsInjective
<1>6. f \in Surjection(A, B)
  BY <1>1, <1>3 DEF Surjection
<1> QED BY <1>5, <1>6, FS_Injection

LEMMA CountTypes ==
  ASSUME Shapes
  PROVE  /\ IsFiniteSet(Sentinels) /\ Cardinality(Sentinels) \in Nat
         /\ IsFiniteSet(Reading) /\ Cardinality(Reading) \in Nat
         /\ Reading \subseteq Stream /\ Sentinels \subseteq DOMAIN queue
         /\ Len(queue) \in Nat /\ DOMAIN queue = 1 .. Len(queue)
<1>1. Len(queue) \in Nat /\ DOMAIN queue = 1 .. Len(queue)
  BY LenProperties DEF Shapes
<1>2. Sentinels \subseteq DOMAIN queue /\ Reading \subseteq Stream
  BY DEF Sentinels, Reading
<1>3. IsFiniteSet(1 .. Len(queue))
  BY <1>1, FS_Interval
<1> QED BY <1>1, <1>2, <1>3, TwoStreams, FS_Subset, FS_CardinalityType

LEMMA DrainCounts ==
  ASSUME TypeOK, Shapes, Counted, NEW s \in Stream, Drain(s)
  PROVE  Counted'
<1>0. finished \in 0 .. 2
  BY TwoStreams DEF TypeOK, VenvTypeOK
<1>1. /\ reader[s] = "reading" /\ stage' = stage /\ finished' = finished
      /\ \A y \in Stream : y # s => reader'[y] = reader[y]
      /\ ReadsLine(s) \/ ReadsNoMore(s)
  BY DrainFacts
<1>2. /\ IsFiniteSet(Sentinels) /\ Cardinality(Sentinels) \in Nat
      /\ IsFiniteSet(Reading) /\ Cardinality(Reading) \in Nat
  BY CountTypes
<1>3. s \in Reading
  BY <1>1 DEF Reading
<1>4. CASE ReadsLine(s)
  <2>1. Reading' = Reading
    BY <1>1, <1>4 DEF ReadsLine, Reading
  <2>2. Sentinels' = Sentinels
    <3>1. PICK e \in Line : e # Sentinel /\ queue' = Append(queue, e)
      BY <1>4, PipeTail, LineNotSentinel DEF ReadsLine
    <3> QED BY <3>1, QueueAppend DEF Sentinels
  <2> QED BY <1>1, <1>3, <2>1, <2>2 DEF Counted
<1>5. CASE ReadsNoMore(s)
  <2>1. Reading' = Reading \ {s}
    BY <1>1, <1>5 DEF ReadsNoMore, Reading
  <2>2. /\ Len(queue) \in Nat
        /\ DOMAIN queue' = DOMAIN queue \cup {Len(queue) + 1} /\ Len(queue) + 1 \notin DOMAIN queue
        /\ Len(queue') = Len(queue) + 1 /\ queue'[Len(queue) + 1] = Sentinel
        /\ \A i \in DOMAIN queue : queue'[i] = queue[i]
    BY <1>5, QueueAppend DEF ReadsNoMore
  <2>3. Sentinels' = Sentinels \cup {Len(queue) + 1} /\ Len(queue) + 1 \notin Sentinels
    BY <2>2 DEF Sentinels
  <2>4. Cardinality(Sentinels') = Cardinality(Sentinels) + 1
    BY <1>2, <2>3, FS_AddElement
  <2>5. Cardinality(Reading') = Cardinality(Reading) - 1
    BY <1>2, <1>3, <2>1, FS_RemoveElement
  <2>6. queue' # << >> /\ queue'[Len(queue')] = Sentinel
    BY <2>2, EmptySeq
  <2>7. finished + Cardinality(Sentinels') + Cardinality(Reading')
          = finished + Cardinality(Sentinels) + Cardinality(Reading)
    BY <1>0, <1>2, <2>4, <2>5
  <2>8. Reading = {} => Reading' = {}
    BY <2>1
  <2> QED BY <1>1, <2>6, <2>7, <2>8 DEF Counted
<1> QED BY <1>1, <1>4, <1>5
LEMMA KeptCounts ==
  ASSUME Counted, UNCHANGED <<reader, queue, finished>>,
         stage' \in Streaming => stage' = stage, stage' \in Awaiting => stage \in Awaiting
  PROVE  Counted'
<1>1. Sentinels' = Sentinels /\ Reading' = Reading
  BY DEF Sentinels, Reading
<1> QED BY <1>1 DEF Counted, Awaiting

LEMMA StartsCounts ==
  ASSUME TypeOK, Shapes, Starts("pip", job.installs) \/ Starts("script", job.script)
  PROVE  Counted'
<1>1. /\ queue' = << >> /\ finished' = 0 /\ stage' \in Streaming
      /\ \A s \in Stream : reader'[s] = "reading"
  BY JobShape, SpawnType DEF Starts, Streaming
<1>2. Sentinels' = {} /\ Reading' = Stream
  BY <1>1, EmptySeq DEF Sentinels, Reading
<1>3. Cardinality(Sentinels') = 0 /\ Cardinality(Reading') = 2
  BY <1>2, TwoStreams, FS_EmptySet
<1> QED BY <1>1, <1>2, <1>3 DEF Counted, Streaming, Stream

\* When the last sentinel is taken the queue is empty and no reader is left.
LEMMA TakeCounts ==
  ASSUME TypeOK, Shapes, Counted, Take
  PROVE  /\ Counted'
         /\ stage' \in Awaiting => Head(queue) = Sentinel /\ Reading = {} /\ queue' = << >>
<1>0. finished \in 0 .. 1 /\ stage \in Streaming
  BY TwoStreams DEF TypeOK, VenvTypeOK, Take, Counted
<1>1. /\ queue # << >> /\ queue' = Tail(queue) /\ UNCHANGED reader
      /\ queue \in Seq(Line \cup {Sentinel})
  BY DEF Take, Shapes
<1>2. /\ Head(queue) \in Line \cup {Sentinel} /\ Head(queue) = queue[1]
      /\ Len(queue) \in Nat \ {0}
      /\ DOMAIN queue = 1 .. Len(queue) /\ DOMAIN queue' = 1 .. Len(queue) - 1
      /\ Len(queue') = Len(queue) - 1
      /\ \A i \in 1 .. Len(queue) - 1 : queue'[i] = queue[i + 1]
  BY <1>1, TailFacts
<1>3. /\ IsFiniteSet(Sentinels) /\ Cardinality(Sentinels) \in Nat
      /\ IsFiniteSet(Reading) /\ Cardinality(Reading) \in Nat
  BY CountTypes
<1>4. Reading' = Reading
  BY <1>1 DEF Reading
<1>5. Cardinality(Sentinels') = Cardinality(Sentinels \ {1})
  <2>1. Sentinels \subseteq Int /\ Sentinels' \subseteq Int
    BY <1>2 DEF Sentinels
  <2>2. \A i \in Sentinels' : i + 1 \in Sentinels \ {1}
    BY <1>2 DEF Sentinels
  <2>3. \A j \in Sentinels \ {1} : j - 1 \in Sentinels'
    <3> SUFFICES ASSUME NEW j \in 1 .. Len(queue), queue[j] = Sentinel, j # 1
                 PROVE  j - 1 \in 1 .. Len(queue) - 1 /\ queue'[j - 1] = Sentinel
      BY <1>2 DEF Sentinels
    <3>1. j - 1 \in 1 .. Len(queue) - 1 /\ (j - 1) + 1 = j
      BY <1>2
    <3> QED BY <1>2, <3>1
  <2>4. IsFiniteSet(Sentinels \ {1})
    BY <1>3, FS_RemoveElement
  <2> QED BY <2>1, <2>2, <2>3, <2>4, ShiftedCount
\* The last element stays the last one.
<1>6. Reading = {} => /\ queue[Len(queue)] = Sentinel
                      /\ Len(queue) # 1 => queue' # << >> /\ queue'[Len(queue')] = Sentinel
  <2> SUFFICES ASSUME Reading = {}
               PROVE  /\ queue[Len(queue)] = Sentinel
                      /\ Len(queue) # 1 => queue' # << >> /\ queue'[Len(queue')] = Sentinel
    OBVIOUS
  <2>1. queue[Len(queue)] = Sentinel
    BY <1>0 DEF Counted
  <2>2. ASSUME Len(queue) # 1 PROVE queue' # << >> /\ queue'[Len(queue')] = Sentinel
    <3>1. Len(queue) - 1 \in 1 .. Len(queue) - 1 /\ (Len(queue) - 1) + 1 = Len(queue)
      BY <1>2, <2>2
    <3>2. queue'[Len(queue')] = Sentinel
      BY <1>2, <2>1, <3>1
    <3> QED BY <1>2, <3>1, <3>2, EmptySeq
  <2> QED BY <2>1, <2>2
<1>7. CASE Head(queue) = Sentinel
  <2>1. finished' = finished + 1 /\ stage' = IF finished + 1 = 2 THEN AfterStreams ELSE stage
    BY <1>7, TwoStreams DEF Take, Silently
  <2>2. 1 \in Sentinels
    BY <1>2, <1>7 DEF Sentinels
  <2>3. Cardinality(Sentinels') = Cardinality(Sentinels) - 1
    BY <1>3, <1>5, <2>2, FS_RemoveElement
  <2>4. /\ finished' + Cardinality(Sentinels') + Cardinality(Reading') = 2
        /\ finished + Cardinality(Sentinels) + Cardinality(Reading) = 2
    BY <1>0, <1>3, <1>4, <2>1, <2>3 DEF Counted
  <2>5. Cardinality(Sentinels) \in Nat \ {0}
    BY <1>3, <2>2, FS_EmptySet
  <2>6. CASE finished = 1
    <3>1. stage' \in Awaiting /\ stage' \notin Streaming
      BY <2>1, <2>6 DEF AfterStreams, Awaiting, Streaming
    <3>2. Cardinality(Sentinels) = 1 /\ Cardinality(Reading) = 0
      BY <1>3, <2>4, <2>5, <2>6
    <3>3. Reading = {}
      BY <1>3, <3>2, FS_EmptySet
    <3>4. Len(queue) \in Sentinels
      BY <1>2, <1>6, <3>3 DEF Sentinels
    <3>5. Len(queue) = 1
      <4>1. Cardinality(Sentinels \ {1}) = 0
        BY <1>3, <2>2, <3>2, FS_RemoveElement
      <4>2. Sentinels \ {1} = {}
        BY <1>3, <4>1, FS_EmptySet, FS_RemoveElement
      <4> QED BY <3>4, <4>2
    <3>6. queue' = << >>
      BY <1>1, <1>2, <3>5, TailFacts, EmptySeq
    <3> QED BY <1>4, <1>7, <2>4, <3>1, <3>3, <3>6 DEF Counted
  <2>7. CASE finished = 0
    <3>1. stage' = stage /\ finished' = 1
      BY <2>1, <2>7
    <3>2. Reading = {} => Len(queue) # 1
      <4> SUFFICES ASSUME Reading = {}, Len(queue) = 1 PROVE FALSE
        OBVIOUS
      <4>1. Sentinels = {1}
        BY <1>2, <2>2 DEF Sentinels
      <4>2. Cardinality(Sentinels) = 1 /\ Cardinality(Reading) = 0
        BY <4>1, FS_Singleton, FS_EmptySet
      <4> QED BY <2>4, <2>7, <4>2
    <3>3. stage' \notin Awaiting
      BY <1>0, <3>1 DEF Streaming, Awaiting
    <3> QED BY <1>4, <1>6, <2>4, <3>1, <3>2, <3>3 DEF Counted, Awaiting
  <2> QED BY <1>0, <2>6, <2>7
<1>8. CASE Head(queue) # Sentinel
  <2>1. finished' = finished /\ stage' = stage
    BY <1>8 DEF Take, Yield
  <2>2. 1 \notin Sentinels
    BY <1>2, <1>8 DEF Sentinels
  <2>3. Cardinality(Sentinels') = Cardinality(Sentinels)
    BY <1>3, <1>5, <2>2, FS_RemoveElement
  <2>4. Reading = {} => Len(queue) # 1
    BY <1>2, <1>6, <1>8
  <2>5. stage' \notin Awaiting
    BY <1>0, <2>1 DEF Streaming, Awaiting
  <2> QED BY <1>4, <1>6, <2>1, <2>3, <2>4, <2>5 DEF Counted, Awaiting
<1> QED BY <1>7, <1>8

LEMMA CountedStep ==
  ASSUME TypeOK, Shapes, OneExecutor, Undisturbed, Counted, [Next]_vars
  PROVE  Counted'
<1>1. CASE Passive
  BY <1>1, KeptCounts DEF Passive, Onward
<1>2. CASE Write \/ \E s \in Stream : CloseStream(s)
  BY <1>2, KeptCounts DEF Write, CloseStream, outputVars, muxVars
<1> QED BY <1>1, <1>2, StartsCounts, TakeCounts, DrainCounts, LineMoves
--------------------------------------------------------------------------------
(* What the log has before a program starts and when it is over.           *)

\* What is taken from the queue was printed by the process that runs.
LEMMA TakenKind ==
  ASSUME Shapes, Flows, NEW e \in Line, e # Sentinel, Takes(e)
  PROVE  e.kind = child.kind
<1>1. e.stream \in Stream /\ queue # << >> /\ queue' = Tail(queue) /\ e = Head(queue)
  BY DEF Line, Takes
<1>2. 1 \in DOMAIN queue /\ queue[1] = e
  BY <1>1, QueueTail
<1>3. 1 \in InQueue(e.stream)
  BY <1>1, <1>2 DEF InQueue
<1>4. PlaceQueue(e.stream)
  BY <1>1 DEF Flows, Flow
<1> QED BY <1>2, <1>3, <1>4 DEF PlaceQueue

LEMMA FreshStep ==
  ASSUME TypeOK, Shapes, OneExecutor, Undisturbed, Flows, Fresh, [Next]_vars
  PROVE  Fresh'
<1>1. ASSUME UNCHANGED log \/ \E e \in LogLine : log' = Append(log, e) /\ e.kind \notin {"pip", "script"},
             stage' \in Early => stage \in Early, stage' \in Before => stage \in Before,
             stage' = "pip" => stage = "pip" /\ child'.kind = child.kind
      PROVE  Fresh'
  <2>1. \A i \in DOMAIN log' : (i \in DOMAIN log /\ log'[i] = log[i]) \/ log'[i].kind \notin {"pip", "script"}
    BY <1>1, LogAppend
  <2> QED BY <1>1, <2>1 DEF Fresh, Early, Before
<1>2. CASE Passive
  BY <1>1, <1>2 DEF Passive, Onward, Streaming
<1>3. CASE Starts("pip", job.installs) \/ Starts("script", job.script)
  <2>1. UNCHANGED log /\ (stage' = "pip" => child'.kind = "pip" /\ stage = "created") /\ stage' \in {"pip", "script"}
    BY <1>3, JobShape, SpawnType DEF Starts
  <2> QED BY <2>1 DEF Fresh
<1>4. CASE Take
  <2>1. PICK e \in Line \cup {Sentinel} : Takes(e)
    BY <1>4, TakeFacts
  <2>2. UNCHANGED child /\ stage \in Streaming
        /\ (stage' = stage \/ stage' = AfterStreams)
    BY <1>4, <2>1 DEF Takes, Take, Yield, Silently
  <2>3. CASE stage = "script"
    BY <2>2, <2>3 DEF AfterStreams, Fresh
  <2>4. CASE stage = "pip"
    <3>1. UNCHANGED log \/ \E f \in LogLine : log' = Append(log, f) /\ f.kind = "pip"
      BY <2>1, <2>4, TakenKind, RelayedFacts DEF Takes, Fresh
    <3>2. \A i \in DOMAIN log' : (i \in DOMAIN log /\ log'[i] = log[i]) \/ log'[i].kind = "pip"
      BY <3>1, LogAppend
    <3> QED BY <2>2, <2>4, <3>2 DEF Fresh, AfterStreams
  <2> QED BY <2>2, <2>3, <2>4 DEF Streaming
<1>5. CASE Write \/ \E s \in Stream : CloseStream(s) \/ Drain(s)
  <2>1. UNCHANGED <<log, stage>> /\ child'.kind = child.kind
    BY <1>5 DEF Write, CloseStream, Drain, outputVars, Shapes
  <2> QED BY <1>1, <2>1
<1> QED BY <1>2, <1>3, <1>4, <1>5, LineMoves

Completed == stage \in Awaiting \cup {"success"} \/ status = "success"

LEMMA CompleteStep ==
  ASSUME TypeOK, Shapes, OneExecutor, OneExecutor', Undisturbed, ResultLast, Remains, Flows, Flows', Counted,
         Complete, [Next]_vars
  PROVE  Complete'
<1>0. /\ Complete <=> (Completed => \A s \in Stream : \A n \in Readable(s) : OnLog(s, n))
      /\ Complete' <=> (Completed' => \A s \in Stream : \A n \in Readable(s)' : OnLog(s, n)')
  BY DEF Complete, Completed, Awaiting
<1>1. CASE Passive
  <2>1. CASE job.mode = "docker"
    <3>1. VenvInit'
      BY <1>1, <2>1 DEF OneExecutor, Passive, Onward
    <3>2. child'.at = 0
      BY <3>1 DEF VenvInit, NoChild
    <3>3. \A s \in Stream : Readable(s)' = {}
      BY <3>2 DEF Readable, Written
    <3> QED BY <1>0, <3>3
  <2>2. CASE job.mode = "venv"
    <3>1. Completed' => Completed
      BY <1>1, <2>2 DEF Completed, Passive, Onward, Awaiting
    <3>2. \A s \in Stream : Readable(s)' = Readable(s)
      BY <1>1 DEF Passive, Readable, Written
    <3>3. \A s \in Stream : Logged(s)' = Logged(s) /\ \A i \in Logged(s) : log'[i] = log[i]
      BY <1>1, OthersKept DEF Passive
    <3>4. \A s \in Stream : \A n : OnLog(s, n) => OnLog(s, n)'
      BY <3>3 DEF OnLog
    <3> QED BY <1>0, <3>1, <3>2, <3>4
  <2> QED BY <2>1, <2>2, JobShape DEF Mode
<1>2. CASE Starts("pip", job.installs) \/ Starts("script", job.script)
  <2>1. status = "running" /\ status' = status /\ stage' \in Streaming
    BY <1>2 DEF Starts, ResultLast, Final, Cleanup, Ending, Streaming
  <2> QED BY <1>0, <2>1 DEF Completed, Awaiting, Streaming
<1>3. CASE Take
  <2>1. PICK e \in Line \cup {Sentinel} : Takes(e)
    BY <1>3, TakeFacts
  <2>2. UNCHANGED <<child, reader, status>> /\ stage \in Streaming
        /\ (stage' = stage \/ stage' \in Awaiting)
    BY <1>3, <2>1 DEF Takes, Take, Yield, Silently, AfterStreams, Awaiting
  <2>3. status = "running"
    BY <2>2 DEF ResultLast, Final, Cleanup, Ending, Streaming
  <2>4. CASE stage' = stage
    BY <1>0, <2>2, <2>3, <2>4 DEF Completed, Awaiting, Streaming
  <2>5. CASE stage' \in Awaiting
    <3>1. Reading = {} /\ queue' = << >>
      BY <1>3, <2>5, TakeCounts
    <3>2. \A s \in Stream : reader'[s] = "gone" /\ InQueue(s)' = {}
      BY <2>2, <3>1, EmptySeq DEF Reading, Shapes, InQueue
    <3>3. \A s \in Stream : \A n : ~ OnQueue(s, n)'
      BY <3>2 DEF OnQueue
    <3> QED BY <1>0, <3>2, <3>3 DEF Flows, Flow, Covered
  <2> QED BY <2>2, <2>4, <2>5
<1>4. CASE Write
  <2>1. PICK n, s, line : Wrote(n, s, line)
    BY <1>4, WriteFacts
  <2>2. UNCHANGED <<stage, status, log>> /\ ~ Over /\ child.alive = TRUE /\ child'.kind = child.kind
    BY <1>4, <2>1 DEF Write, outputVars, Wrote, TypeOK, VenvTypeOK
  <2>3. ASSUME Completed
        PROVE  \A x \in Stream : \A m \in Readable(x)' : OnLog(x, m)'
    <3>1. stage \in Awaiting
      <4>1. stage \in ChildStages
        BY <2>2 DEF Remains
      <4>2. status = "running"
        BY <4>1 DEF ResultLast, Final, Cleanup, Ending, ChildStages
      <4> QED BY <2>3, <4>1, <4>2 DEF Completed, ChildStages
    <3>2. \A x \in Stream : reader[x] = "gone"
      BY <3>1 DEF Counted, Awaiting, Reading, Shapes
    <3>3. \A x \in Stream : (\E m \in Written(x) : ~ child.program[m].fits) \/ Unwritten(x) = {}
      BY <2>2, <3>2 DEF Flows, Flow, Covered
    <3>4. \A x \in Stream : Readable(x)' \subseteq Readable(x)
      <4>1. \A x \in Stream : x # s => Readable(x)' = Readable(x)
        BY <2>1, WrittenMore
      <4>2. s \in Stream /\ n \in Unwritten(s)
        BY <2>1, WrittenMore DEF Wrote
      <4>3. \A m \in Readable(s)' : m \in Readable(s) \/ \A k \in Written(s) : child.program[k].fits
        BY <2>1, WrittenMore
      <4>4. \E m \in Written(s) : ~ child.program[m].fits
        BY <3>3, <4>2
      <4> QED BY <4>1, <4>3, <4>4
    <3>5. \A x \in Stream : \A m : OnLog(x, m) => OnLog(x, m)'
      BY <2>2 DEF OnLog, Logged
    <3> QED BY <1>0, <2>3, <3>4, <3>5
  <2> QED BY <1>0, <2>2, <2>3 DEF Completed
<1>5. CASE \E s \in Stream : CloseStream(s) \/ Drain(s)
  <2>1. UNCHANGED <<stage, status, log, child>>
    BY <1>5 DEF CloseStream, Drain, outputVars
  <2>2. \A s \in Stream : Readable(s)' = Readable(s) /\ \A n : OnLog(s, n) => OnLog(s, n)'
    BY <2>1 DEF Readable, Written, OnLog, Logged
  <2> QED BY <1>0, <2>1, <2>2 DEF Completed
<1> QED BY <1>1, <1>2, <1>3, <1>4, <1>5, LineMoves
--------------------------------------------------------------------------------
(* The chunks of a container.                                              *)

LEMMA ChunksKept ==
  ASSUME Shapes,
         UNCHANGED log \/ \E e \in LogLine : log' = Append(log, e) /\ e.kind # "container"
  PROVE  Chunks' = Chunks /\ \A i \in Chunks : log'[i] = log[i]
<1>1. CASE UNCHANGED log
  BY <1>1 DEF Chunks
<1>2. ASSUME NEW e \in LogLine, log' = Append(log, e), e.kind # "container"
      PROVE  Chunks' = Chunks /\ \A i \in Chunks : log'[i] = log[i]
  BY <1>2, LogAppend DEF Chunks
<1> QED BY <1>1, <1>2

LEMMA ReadChunked ==
  ASSUME TypeOK, Shapes, Chunked, ResultLast, ReadChunk
  PROVE  Chunked'
<1>1. IsFiniteSet(Chunks) /\ Cardinality(Chunks) \in Nat /\ printed \in Nat
  BY ChunksFinite, JobShape, LenProperties DEF Shapes, TypeOK, DockerTypeOK
<1> DEFINE e == Chunk(Cardinality(Chunks) + 1)
<1>2. e \in LogLine /\ e.kind = "container" /\ log' = Append(log, e)
  BY <1>1, ChunkLogged DEF ReadChunk, Yield, Chunk
<1>3. /\ UNCHANGED <<printed, status, job>> /\ stage' = "stream"
      /\ Cardinality(Chunks) < printed /\ status = "running"
  BY DEF ReadChunk, Yield, dockerVars, ResultLast, Final, Cleanup, Ending
<1>4. PICK new \in Nat : new = Len(log) + 1
  BY LenProperties DEF Shapes
<1>5. /\ Len(log) \in Nat /\ DOMAIN log = 1 .. Len(log)
      /\ DOMAIN log' = DOMAIN log \cup {new} /\ new \notin DOMAIN log
      /\ log'[new] = e /\ \A i \in DOMAIN log : log'[i] = log[i] /\ i < new
  BY <1>2, <1>4, LogAppend
<1>6. Chunks' = Chunks \cup {new} /\ new \notin Chunks
  BY <1>2, <1>5 DEF Chunks
<1>7. Cardinality(Chunks') = Cardinality(Chunks) + 1
  BY <1>1, <1>6, FS_AddElement
<1>8. \A i \in Chunks : {k \in Chunks' : k <= i} = {k \in Chunks : k <= i}
  BY <1>4, <1>5, <1>6 DEF Chunks
<1>9. {k \in Chunks' : k <= new} = Chunks'
  BY <1>4, <1>5, <1>6 DEF Chunks
<1>10. \A i \in Chunks' : log'[i] = Chunk(Cardinality({k \in Chunks' : k <= i}))
  <2>1. \A i \in Chunks : log'[i] = Chunk(Cardinality({k \in Chunks' : k <= i}))
    BY <1>5, <1>8 DEF Chunked, Chunks
  <2>2. log'[new] = Chunk(Cardinality({k \in Chunks' : k <= new}))
    BY <1>5, <1>7, <1>9
  <2> QED BY <1>6, <2>1, <2>2
<1>11. Cardinality(Chunks') <= printed' /\ stage' \notin {"waiting", "success"} /\ status' # "success"
  BY <1>1, <1>3, <1>7
<1> QED BY <1>10, <1>11 DEF Chunked

\* What the other steps may do to what the invariant speaks of.
LEMMA ChunkedKept ==
  ASSUME TypeOK, Shapes, Chunked, UNCHANGED job,
         UNCHANGED log \/ \E e \in LogLine : log' = Append(log, e) /\ e.kind # "container",
         printed' \in Nat /\ printed <= printed',
         job.mode = "docker" /\ (stage' \in {"waiting", "success"} \/ status' = "success") =>
           /\ printed' = printed
           /\ stage \in {"waiting", "success"} \/ status = "success" \/ Cardinality(Chunks) = printed
  PROVE  Chunked'
<1>1. Chunks' = Chunks /\ \A i \in Chunks : log'[i] = log[i]
  BY ChunksKept
<1>2. Cardinality(Chunks) \in Nat /\ printed \in Nat
  BY ChunksFinite, JobShape, LenProperties DEF Shapes, TypeOK, DockerTypeOK
<1>3. \A i \in Chunks' : log'[i] = Chunk(Cardinality({k \in Chunks' : k <= i}))
  BY <1>1 DEF Chunked
<1>4. Cardinality(Chunks') <= printed'
  BY <1>1, <1>2 DEF Chunked
<1> QED BY <1>1, <1>3, <1>4 DEF Chunked

LEMMA ChunkedStep ==
  ASSUME TypeOK, Shapes, OneExecutor, Undisturbed, ResultLast, Exited, Flows, Chunked, [Next]_vars
  PROVE  Chunked'
<1>0. printed \in Nat
  BY JobShape, LenProperties DEF TypeOK, DockerTypeOK
<1>1. CASE VenvStep
  <2>1. UNCHANGED <<job, printed>> /\ job.mode = "venv"
    BY <1>1, VenvMoves DEF VenvStep, dockerVars, Generates, EndVenv, CancelVenv, Conclude, CutOff, outputVars
  <2>2. UNCHANGED log \/ \E e \in LogLine : log' = Append(log, e) /\ e.kind # "container"
    <3>1. CASE Take
      <4>1. PICK e \in Line \cup {Sentinel} : Takes(e)
        BY <3>1, TakeFacts
      <4>2. CASE e # Sentinel
        BY <4>1, <4>2, TakenKind, RelayedFacts DEF Takes, Shapes
      <4> QED BY <4>1, <4>2 DEF Takes
    <3>2. CASE Write \/ \E s \in Stream : CloseStream(s) \/ Drain(s)
      BY <3>2 DEF Write, CloseStream, Drain, outputVars
    <3>3. CASE Install \/ Launch \/ CreateVenv \/ PipEnds \/ Installed \/ Finish \/ Expire \/ Kill
      <4>1. \E next : Says(next)
        BY <3>3 DEF Install, Launch, CreateVenv, PipEnds, Installed, Finish, Expire, Kill, Says, NoticeText
      <4> QED BY <4>1, SaysLog
    <3>4. CASE EndVenv \/ CancelVenv \/ Finalize \/ Exit
      BY <3>4 DEF EndVenv, CancelVenv, Finalize, Exit, Conclude, CutOff, outputVars
    <3> QED BY <1>1, <3>1, <3>2, <3>3, <3>4 DEF VenvStep, VenvNext, VenvRuns
  <2> QED BY <1>0, <2>1, <2>2, ChunkedKept
<1>2. CASE DockerStep /\ ~ ReadChunk
  <2>1. UNCHANGED log \/ \E e \in LogLine : log' = Append(log, e) /\ e.kind # "container"
    <3>1. UNCHANGED log \/ \E next : Says(next)
      BY <1>2, DockerLogs DEF DockerStep
    <3> QED BY <3>1, SaysLog
  <2>2. UNCHANGED job
    BY <1>2, DockerMoves DEF DockerStep, Generates, CleansUp, EndDocker, CancelDocker, Conclude, CutOff, outputVars
  <2>3. ASSUME UNCHANGED printed,
               stage' \in {"waiting", "success"} \/ status' = "success" =>
                 stage \in {"waiting", "success"} \/ status = "success" \/ Cardinality(Chunks) = printed
        PROVE  Chunked'
    BY <1>0, <2>1, <2>2, <2>3, ChunkedKept
  <2>4. CASE ContainerPrints
    <3>1. /\ container = "running" /\ printed' = printed + 1 /\ UNCHANGED <<stage, status>>
      BY <2>4 DEF ContainerPrints, outputVars
    <3>2. ~ (stage \in {"waiting", "success"} \/ status = "success")
      BY <3>1 DEF Exited
    <3> QED BY <1>0, <2>1, <2>2, <3>1, <3>2, ChunkedKept
  <2>5. CASE ContainerExits \/ \E request \in Request : Late(request)
    BY <2>3, <2>5 DEF ContainerExits, Late, outputVars
  <2>6. CASE Prepare \/ Connect \/ Rejected \/ Timed \/ StreamEnds \/ StreamBreaks
    <3>1. UNCHANGED printed /\ UNCHANGED status
      BY <2>6 DEF Prepare, Connect, Rejected, Timed, StreamEnds, StreamBreaks, Raise, Yield, Silently, dockerVars
    <3>2. stage' \in {"waiting", "success"} => Cardinality(Chunks) = printed
      BY <2>6 DEF Prepare, Connect, Rejected, Timed, StreamEnds, StreamBreaks, Raise, Yield, Silently
    <3> QED BY <2>3, <3>1, <3>2
  <2>7. CASE Build \/ StartContainer \/ Attach \/ WaitContainer
    <3>1. UNCHANGED printed /\ UNCHANGED status
      BY <2>7 DEF Build, StartContainer, Attach, WaitContainer, Raise, Yield, Silently
    <3>2. stage' \in {"waiting", "success"} => stage = "waiting"
      BY <2>7 DEF Build, StartContainer, Attach, WaitContainer, Raise, Yield, Silently
    <3> QED BY <2>3, <3>1, <3>2
  <2>8. CASE BeginCleanup \/ GetContainer \/ RemoveContainer \/ RemoveImage
    BY <2>3, <2>8 DEF BeginCleanup, GetContainer, RemoveContainer, RemoveImage, Silently
  <2>9. CASE EndDocker
    BY <2>3, <2>9 DEF EndDocker, Conclude, dockerVars
  <2>10. CASE CancelDocker
    BY <2>3, <2>10 DEF CancelDocker, CutOff
  <2> QED BY <1>2, <2>4, <2>5, <2>6, <2>7, <2>8, <2>9, <2>10 DEF DockerStep, DockerNext, DockerRuns, DaemonAnswers
<1>3. CASE OutputStep
  <2>1. UNCHANGED log \/ \E e \in LogLine : log' = Append(log, e) /\ e.kind # "container"
    BY <1>3, OutputLogs, SaysLog
  <2>2. UNCHANGED <<job, printed, status>> /\ (stage' \in {"waiting", "success"} => stage' = stage)
    BY <1>3 DEF OutputStep, Deliver, Start, Yield, Persist, Close, Silently, Send, Register, Drop, Unregister, dockerVars
  <2> QED BY <1>0, <2>1, <2>2, ChunkedKept
<1>4. CASE UNCHANGED vars
  <2>1. UNCHANGED <<job, log, printed, stage, status>>
    BY <1>4 DEF vars, outputVars, dockerVars
  <2> QED BY <1>0, <2>1, ChunkedKept
<1> QED BY <1>1, <1>2, <1>3, <1>4, ReadChunked DEF Next
--------------------------------------------------------------------------------
(* The invariant.                                                          *)

LEMMA IndInit == Init => IndInv
<1> SUFFICES ASSUME Init PROVE IndInv
  OBVIOUS
<1>1. TypeOK /\ Shapes
  BY TypeInit, TypeOfParts
<1>2. /\ stage = "start" /\ status = "running" /\ log = << >> /\ toSend = {}
      /\ \A l \in Listener : session[l] = "new"
      /\ VenvInit /\ DockerInit
  BY DEF Init, OutputInit
<1>3. /\ child.alive = FALSE /\ child.at = 0 /\ queue = << >> /\ finished = 0
      /\ \A s \in Stream : pipe[s] = << >> /\ reader[s] = "gone"
  BY <1>2 DEF VenvInit, NoChild
<1>4. DOMAIN log = {} /\ DOMAIN queue = {} /\ \A s \in Stream : DOMAIN pipe[s] = {}
  BY <1>2, <1>3, EmptySeq
<1>5. OneExecutor /\ ResultLast /\ Undisturbed
  <2>1. OneExecutor
    BY <1>2 DEF OneExecutor, VenvExecuting, DockerExecuting, Cleanup
  <2>2. ResultLast /\ Undisturbed
    BY <1>2 DEF ResultLast, Undisturbed, Quiet
  <2> QED BY <2>1, <2>2
<1>6. Remains /\ Owed /\ Exited
  <2>1. Remains
    BY <1>2, IdleVenv
  <2>2. Owed /\ Exited
    BY <1>2 DEF DockerInit, Owed, Exited
  <2> QED BY <2>1, <2>2
<1>7. Flows
  <2> SUFFICES ASSUME NEW s \in Stream PROVE Flow(s)
    BY DEF Flows
  <2>1. Written(s) = {}
    BY <1>3 DEF Written
  <2>2. Readable(s) = {} /\ Logged(s) = {} /\ InQueue(s) = {} /\ DOMAIN pipe[s] = {}
    BY <1>4, <2>1 DEF Readable, Logged, InQueue
  <2>3. Covered(s)
    BY <1>3, <2>1, <2>2 DEF Covered
  <2> QED BY <2>2, <2>3 DEF Flow, PlaceLog, PlaceQueue, PlacePipe, PlaceOrder
<1>8. Counted
  <2>1. Sentinels = {} /\ Reading = {}
    BY <1>3, <1>4 DEF Sentinels, Reading
  <2>2. Cardinality(Sentinels) = 0 /\ Cardinality(Reading) = 0
    BY <2>1, FS_EmptySet
  <2> QED BY <1>2, <1>3, <2>1, <2>2 DEF Counted, Streaming
<1>9. Fresh /\ Complete
  BY <1>2, <1>4 DEF Fresh, Complete
<1>10. Chunked
  <2>1. Chunks = {}
    BY <1>4 DEF Chunks
  <2>2. Cardinality(Chunks) = 0
    BY <2>1, FS_EmptySet
  <2> QED BY <1>2, <2>1, <2>2 DEF Chunked, DockerInit
<1>11. ListenersFollow
  BY <1>2 DEF ListenersFollow
<1> QED BY <1>1, <1>5, <1>6, <1>7, <1>8, <1>9, <1>10, <1>11 DEF IndInv, Base

LEMMA IndStep == IndInv /\ [Next]_vars => IndInv'
<1> SUFFICES ASSUME IndInv, [Next]_vars PROVE IndInv'
  OBVIOUS
<1>0. /\ TypeOK /\ Shapes /\ OneExecutor /\ ResultLast /\ Undisturbed /\ Remains /\ Owed /\ Exited
      /\ Flows /\ Counted /\ Fresh /\ Complete /\ Chunked /\ ListenersFollow
  BY DEF IndInv, Base
<1>1. TypeOK' /\ Shapes'
  <2>1. Parts'
    BY <1>0, TypeStep
  <2> QED BY <2>1, TypeOfParts, PTL
<1>2. OneExecutor' /\ ResultLast' /\ Undisturbed'
  BY <1>0, ExecutorStep, ResultStep, UndisturbedStep
<1>3. Remains' /\ Owed' /\ Exited'
  BY <1>0, <1>2, RemainsStep, OwedStep
<1>4. Flows' /\ Counted' /\ Fresh'
  BY <1>0, FlowsStep, CountedStep, FreshStep
<1>5. Complete' /\ Chunked' /\ ListenersFollow'
  BY <1>0, <1>2, <1>4, CompleteStep, ChunkedStep, FollowStep
<1> QED BY <1>1, <1>2, <1>3, <1>4, <1>5 DEF IndInv, Base

LEMMA Invariant == Spec => []IndInv
<1>1. Spec => Init /\ [][Next]_vars
  BY PTL DEF Spec
<1> QED BY <1>1, IndInit, IndStep, PTL

\* The state keeps its types, whatever the program, the daemon and the browsers do.
THEOREM TypeCorrect == Spec => []TypeOK
<1>1. IndInv => TypeOK
  BY DEF IndInv, Base
<1> QED BY <1>1, Invariant, PTL

\* The lines of a stream that can be read are in the log as far as it goes.
LEMMA FlowLogged ==
  ASSUME Shapes, NEW s \in Stream, Flow(s), NEW i \in Logged(s), NEW n \in Readable(s)
  PROVE  n < log[i].n <=> \E k \in Logged(s) : k < i /\ log[k].n = n
<1>0. n \in Written(s) /\ Written(s) \subseteq Nat /\ Readable(s) \subseteq Nat
  BY DEF Readable, Written, Shapes
<1>1. PlaceLog(s) /\ PlaceOrder(s) /\ Covered(s)
  BY DEF Flow
<1>2. log[i].n \in Nat /\ i \in Nat /\ Logged(s) \subseteq Nat
  <2>1. DOMAIN log = 1 .. Len(log) /\ Len(log) \in Nat
    BY LenProperties DEF Shapes
  <2> QED BY <1>0, <1>1, <2>1 DEF PlaceLog, Logged
<1>3. ASSUME NEW k \in Logged(s), k < i, log[k].n = n PROVE n < log[i].n
  BY <1>1, <1>3 DEF PlaceLog
<1>4. ASSUME n < log[i].n PROVE \E k \in Logged(s) : k < i /\ log[k].n = n
  <2>1. ~ OnQueue(s, n)
    <3>1. \A k \in InQueue(s) : queue[k].n \in Nat
      BY <1>0 DEF Flow, PlaceQueue
    <3> QED BY <1>0, <1>1, <1>2, <1>4, <3>1 DEF OnQueue, PlaceOrder
  <2>2. ~ OnPipe(s, n)
    BY <1>0, <1>1, <1>2, <1>4 DEF OnPipe, PlaceOrder
  <2>3. OnLog(s, n)
    BY <1>0, <1>1, <2>1, <2>2 DEF Covered, Nowhere, Shapes
  <2>4. PICK k \in Logged(s) : log[k].n = n
    BY <2>3 DEF OnLog
  <2>5. k < i
    BY <1>0, <1>1, <1>2, <1>4, <2>4 DEF PlaceLog
  <2> QED BY <2>4, <2>5
<1> QED BY <1>3, <1>4

\* The log of a run has the lines of each stream of its programs in the order they were
\* written, none lost and none twice, up to the first that is too long, and the chunks of
\* a container in the order it printed them; all of them once the executor waits for the
\* exit, and so in the log of every run that succeeds.  Only lines of pip that begin with
\* a character of the tags are not whole (executor.py:194).
THEOREM LogsFaithful == Spec => []LogFaithful
<1>1. IndInv => ChunksLogged
  BY DEF IndInv, Chunked, ChunksLogged
<1>2. ASSUME IndInv PROVE StreamsLogged
  <2> SUFFICES ASSUME NEW s \in Stream
               PROVE  /\ \A i \in Logged(s) :
                           /\ log[i].n \in Readable(s)
                           /\ \A n \in Readable(s) :
                                n < log[i].n <=> \E k \in Logged(s) : k < i /\ log[k].n = n
                           /\ child.kind = "pip" /\ log[i].cut =>
                                child.program[log[i].n].first # "other"
                      /\ (stage \in {"pipwait", "wait", "expired"} \/ status = "success") =>
                           \A n \in Readable(s) : \E i \in Logged(s) : log[i].n = n
    BY DEF StreamsLogged
  <2>1. Shapes /\ Flow(s) /\ Complete
    BY <1>2 DEF IndInv, Base, Flows
  <2>2. \A i \in Logged(s) :
          /\ log[i].n \in Readable(s)
          /\ child.kind = "pip" /\ log[i].cut => child.program[log[i].n].first # "other"
    BY <2>1 DEF Flow, PlaceLog
  <2>3. \A i \in Logged(s), n \in Readable(s) :
          n < log[i].n <=> \E k \in Logged(s) : k < i /\ log[k].n = n
    BY <2>1, FlowLogged
  <2>4. (stage \in {"pipwait", "wait", "expired"} \/ status = "success") =>
          \A n \in Readable(s) : \E i \in Logged(s) : log[i].n = n
    BY <2>1 DEF Complete, OnLog
  <2> QED BY <2>2, <2>3, <2>4
<1>3. IndInv => LogFaithful
  BY <1>1, <1>2 DEF LogFaithful
<1> QED BY <1>3, Invariant, PTL

\* A browser connected to the log channel has been sent every line since, in order, but
\* for the one under way, however many others there are and whenever they go away.
THEOREM ListenersServed == Spec => []ListenersFollow
<1>1. IndInv => ListenersFollow
  BY DEF IndInv
<1> QED BY <1>1, Invariant, PTL

\* A venv run that got its result leaves no process behind, whether it succeeded, failed
\* or timed out, and no requirements file and no venv it knew of but for what the file
\* system refused to write or to remove (executor.py:179-197, 256, 271-279).
THEOREM NothingLeftBehind == Spec => []NothingLeft
<1>1. IndInv => NothingLeft
  BY DEF IndInv, Remains, NothingLeft, ChildStages, FileStages, Over, Ending
<1> QED BY <1>1, Invariant, PTL

\* A Docker run that is over leaves a container or an image only if one of the requests
\* that make or remove it failed or was cut off, and a build context only if its cleanup
\* was cut short or the file system refused to remove it.
THEOREM DaemonLeftClean == Spec => []DaemonClean
<1>1. IndInv => DaemonClean
  BY DEF IndInv, Owed, DaemonClean, Over, Ending
<1> QED BY <1>1, Invariant, PTL
================================================================================
