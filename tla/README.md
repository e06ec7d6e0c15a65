# PyTaskForge, verified

TLA+ models of the backend of PyTaskForge (`src/backend`), the TLC runs that
check them and the TLAPS proofs about them.

## The system

PyTaskForge is one asyncio process: a FastAPI application, an APScheduler
instance with an in-memory job store, and an SQLAlchemy database (SQLite by
default). Everything runs on one event loop, so a coroutine is interrupted only
where it awaits: at database calls, at the execution semaphore, at the output of
a script, at network calls. All concurrency bugs live between two awaits, and
the models take one step per stretch of code between them.

| Component | State | Operations | Talks to | What makes it correct |
|---|---|---|---|---|
| Execution engine (`services/scheduler.py`) | the semaphore, the running tasks, `run_history` | fire, run-now, webhook, load, insert, execute, clean up, persist, alert, shutdown | job table, executors, log channel, alerts | no permit is lost or granted twice; each run writes its own row, once; waiters are served |
| Job registry (`routers/jobs.py`, `schedule_job`, `main.py`) | the `jobs` table, the entries of APScheduler | create, update, delete, regenerate the webhook token, reload at start | engine (fires), engine (status read at load) | the two stores agree; a deleted job stays deleted; an invalidated token stays invalid |
| Pipeline runner (`services/pipeline_runner.py`, `routers/pipelines.py`) | pipelines and edges, the local results of each execution | create, update, archive, trigger, sort, decide, run a node, read its result | engine (`_run_job_inner`), `run_history` | the order respects the edges; a node runs exactly if its upstream results allow it; one failure does not stop the rest; a pipeline is what its requests answered |
| Venv executor (`services/executor.py`) | a subprocess, two stream readers, a queue | create, install, run, time out, clean up | engine | all output is logged in order; the limit is enforced; nothing is left behind |
| Docker executor (`services/executor.py`) | a build context, an image and a container of the Docker daemon | build, start, stream, wait, clean up | engine, the daemon | the output is logged in order; what a failed or cancelled run leaves is what its failed requests account for |
| Log channel (`scheduler.py:51-68`, `main.py:207`) | listeners per job | register, unregister, broadcast | executors, browser | each listener sees a contiguous part of the log |
| Secrets (`routers/secrets.py`, `secret_resolver.py`, `vault.py`) | the `secrets` table, the key | upsert, delete, resolve | engine | the table holds what the requests were told; a run gets all of its secrets, as they are now, or none |
| Webhooks (`routers/webhooks.py`) | token of a job | trigger with parameters | engine | the run is that of the job, with its parameters |
| Alerts (`services/notifier.py`, `routers/alerts.py`) | the `alert_policies` table | create, update, delete, check, dispatch | engine | each matching policy is notified once per run, and no other |
| Analytics (`services/analytics.py`, `routers/analytics.py`) | none: it reads `run_history` and the clock | summary, heatmap, trend, anomalies | database | no run of the window is lost; the newest finished runs are listed; what stands out is reported, and nothing else |
| Authentication, configuration, frontend | none of their own that others rely on | token checks, settings, views | database, API | - |

Hard behaviours: tasks that overlap in any order; cancellation at any await
during a shutdown; exceptions in a `finally` block; a crash between two commits;
requests that act on a row they loaded earlier; results read back from a table
others write to; requests in threads that outlive the coroutine awaiting them;
a clock that passes midnight during a query. They are listed line by line under `hazards` in `PROJECT.json`.

## The modules

| Module | Models | Actions and the code |
|---|---|---|
| `RunLedger` | what `run_history` promises its readers | `Open`: the insert of a RUNNING row; `Close`: the final commit, of an open row; `StopOrStart`: the process begins to stop, or starts |
| `RunEngine` | the engine, as an implementation of the ledger | see below |
| `RunEngineProps`, `RunEngineProofs`, `MCRunEngine` | its properties, their proofs, its TLC instance | |
| `JobRegistry`, `MCJobRegistry` | jobs router against the table and APScheduler | `Begin`, `Insert`, `Load`, `Apply`, `ApplyDelete`, `ApplyToken`, `Commit` are the stretches of a request, `StatementFails` is its end by a failing one; `Restart` is `_reload_active_jobs`; `Expire` is APScheduler dropping a one-shot entry |
| `PipelineGraph` | edges, and what a cycle and a topological order are, declaratively | |
| `TopologicalSort`, `MCTopologicalSort` | `build_graph` and `topological_sort` | `Visit` is one iteration of the `while` loop, `Finish` the comparison after it |
| `TopologicalSortProofs` | its correctness, proved | |
| `PipelineEdits` | the pipelines router: pipelines and their edges | `CreatePipeline` is one transaction; `BeginUpdate`, `BeginArchive` load, `CommitEdit` and `EditFails` end a request |
| `PipelineRunner`, `MCPipelineRunner` | `execute_pipeline`, over `PipelineEdits` and the ledger | `Trigger` creates the task, `Start` loads and sorts, `Skip`/`RunNode`/`NodeEnds`/`NodeRaises`/`ReadResult` are the loop body |
| `PipelineWalk`, `PipelineRunnerProofs` | what an execution promises, and the proof that the runner keeps it | `Adopt`: `Start`; `Skip`; `Run`: `RunNode`; `Return`: `ReadResult` or `NodeRaises`; `Fail`: `NodeRaises` before the run |
| `RunOutput` | the loop of `_run_job_inner` that consumes an executor, whichever it is, and the log channel | `Start`, `Send`, `Conclude`, `CutOff`, `Persist`, `Close`; `Register`, `Drop`, `Unregister` of a listener |
| `VenvRun` | `VenvExecutor` and `_interleave_streams`, on `RunOutput` | `Drain` and `Take` are the turns of the two loops of the multiplexer, the others the stretches of the generator between two lines |
| `DockerRun` | `DockerExecutor` and the daemon, on `RunOutput` | one action per awaited request (`Build`, `StartContainer`, ..., `RemoveImage`); `Late` is a thread that outlives its awaiter |
| `ScriptRun`, `MCScriptRun` | a run with either executor (`get_executor`) | the composition of the three |
| `ScriptRunProofs` | its safety, proved | |
| `Analytics`, `MCAnalytics` | the four statistics, over a table and a clock that go on | `Ask`, then one action per query (`CountJobs`, `Summarise`, `GroupByDay`, `ReadTrend`, `ListJobs`, `Judge`) and `FillIn` for the stretch after that of the heatmap |
| `AnalyticsProofs` | no run of a window is lost, the trend is complete and reports are right, proved | |
| `TableRows` | how a database numbers rows | |
| `MaximumFacts` | lemmas about the least, the largest and a bound of a set of naturals, used by four proof modules | |
| `SecretVault` | the secrets table, its requests and the key | `Upsert`, `DeleteSecret` read, `Insert`, `Update`, `UpdateFails`, `Remove` commit |
| `AlertPolicies` | the policies table and its requests, and which policies a run notifies | `CreatePolicy`, `ChangePolicy`, `DeletePolicy` read, `CommitCall` commits |
| `RunContext`, `MCRunContext` | both around runs: the environment of a run and its alerts | `Webhook`, `MergeParams`, `Load`, `Resolve`, `Execute`, `Consider`, `Reported` are the stretches of a run |
| `JobRegistryProofs` | the properties of the registry, proved | |
| `RunContextProofs` | the secrets table holds what was answered, a run gets it, and its alerts are exact, proved | |

### RunEngine

A task is in one of the stages of `pc`; each is an await of `_execute_job` or
`_run_job_inner`. `permits` and `waiters` are the semaphore, with the hand-over
of a permit to the oldest waiter that `asyncio.Semaphore.release` performs.
A pipeline node starts at `load`: `execute_pipeline` calls `_run_job_inner`
itself and never meets the semaphore. Exceptions are transitions: `DbFails`
(a statement raises, with or without effect, `CommitMayStand`), `CleanupRaises`
(the Docker client cannot be created in the `finally` block) and the outcome
`failed` of `Execute`. `Shutdown` cancels the scheduled fires, `CloseLoop` every
task; `CancelExec` is the only place where a cancelled task goes on, through
its `finally` block with `run.status` still RUNNING. `Crash` forgets everything
but the two tables.

The two commits of a run are `AddRow` and `WriteResult`. Neither checks anything: the
second writes whatever row the task holds, with whatever status it has in memory. That
the row is open, that it is written once, and that the status is a final one unless
the process is being stopped (`up`) is what `RunLedger` asks and `ImplementsLedger`
says. The ledger does not promise that a row is closed: a crash, a cancelled commit, a
`cleanup` that raises (`scheduler.py:182`) and a `refresh` that raises (`:142`) leave it
RUNNING for good, and nothing repairs it at the next start. `RunPersisted` and
`OpenRowHasTask` are stated for what is left: no stop, no Docker job, no failing
statement.

### JobRegistry

The row a request loaded (`old`) and its edited copy (`new`) are kept apart from
the table, and `Commit` writes the columns in which they differ, as the unit of
work does. `overlapped` marks jobs that had two requests for their schedule at
once and `unscheduled` those whose trigger was refused or has fired for the last
time, or whose creation failed between its two commits: such a job may be missing in
APScheduler, but may not have a wrong entry there. A statement of a request can fail
(`StatementFails`; SQLite: "database is locked"). What the request did to APScheduler
before is not undone: after `add_job` the entry stays, without its id in the row if it
was `create_job` (`jobs.py:204-213`); after `remove_job` it is gone, while the row says
ACTIVE (`jobs.py:257`, `:278`). Such a job is in `torn` until a commit leaves it with
its id, for which `Mended` waits: `StoresAgree` and `EntryHasId` say nothing of it until
then, and must hold again from then on. `create_job` does not look at the status of the
row it reads back, so that it schedules a job that was deleted in between. The
properties say what holds outside these cases, and the violation run shows what an
overlap does. A new webhook token is in a column that no other request writes, so it
never counts as an overlap; `told` is the history of the tokens committed, which
clients are given.

### PipelineEdits and PipelineRunner

`pipelines` and `edges` are the tables, by the ids of their rows; the runner reads the
edges of a pipeline in the order of their ids. `calls` is what each request in flight has loaded
and will write, `answered` what the requests answered so far say, and `clashed`
whether two of them ever set the same thing of one pipeline at once. When they do,
two updates leave the union of their edges, which may have a cycle
(`pipelines.py:228`; an execution then does nothing but log an error), and an update
may bring an archived pipeline back (`:244`). `PipelinesAsAnswered` and
`ArchivedStays` say that nothing of the kind happens otherwise.

The sort is taken at its word - some topological order or an error - which is
what `TopologicalSort` establishes; the engine is taken as the ledger
(`Ledger == INSTANCE RunLedger WITH ...`), which is what `RunEngine` implements.
`PipelineWalk` is the abstract specification: the edges an execution goes by, its
results and the job that runs, if any. `ImplementsWalk` is the refinement
(`Walk == INSTANCE PipelineWalk WITH ...`: the edges it loaded, `job_results`, and the
current node from the insert of its row to the query of its result). The walk knows
neither of an order of the jobs nor of the ledger: that a job comes after everything
upstream of it is a guard there (`Due`) and a consequence of the sort here, and what
the walk compares is every edge (`Refusing`), where the code looks up one condition
per pair of jobs.
`own` and `seen` are history variables: the row the execution opened for a node and
the row its result was read from. `OtherOpens` and `OtherCloses` are runs of the
same jobs for other reasons. The result of a node is the newest row of its job,
which may be another run, and one that has not ended (`pipeline_runner.py:221`, where
`:218` says "most recently completed"): `ResultNotStale` says what can be relied on.

### RunOutput, VenvRun and DockerRun

The generator of an executor is resumed only when the broadcast of the line it
yielded is over, so `stage` says where it will go on and every step of it waits
for `toSend` to be empty (`Quiet`). When it ends or raises, `stage` is its outcome;
the `finally` block, the commit and the last broadcast follow. `CutOff` is a
shutdown: no `except` clause takes the `CancelledError`, and the result is committed
as RUNNING. `got` is a history variable: the newest line a listener has. Runs
that share a log channel share its set of listeners and nothing else, so one run
is followed. The notices of the executors ("Venv ready" and the like) are one line
per stage.

`VenvRun`: a subprocess writes to pipes that hold `PipeSize` lines, may close a stream
before it exits, may exit before its streams are closed (a child of its own holds
them) and may block on a full pipe. A line that does not fit the `StreamReader` makes
`readline` raise and ends its reader. Nothing kills the subprocess on a shutdown;
after the run it and its readers are not followed. pip uses the same multiplexer,
afresh; from its lines `_install_requirements` takes the tag off with
`lstrip('[OUT] ').lstrip('[ERR] ')` (`executor.py:194`), which takes off every leading
character of the two sets, and so the beginning of some of pip's own lines ("ERROR: ..."
becomes "OR: ..."). `first` tells which set, if any, a line begins
with, `Relayed` which lines are `cut`, and `LogFaithful` that no other line is: a
line of the script never. The file system may refuse to write the requirements
file, which then stays as it is not yet in the `try` block (`executor.py:179-183`), to
unlink it, which raises, or to remove the venv, which `rmtree(ignore_errors=True)` does
not tell (`executor.py:275`): what stays so is "stuck". `NothingLeft` allows
that and nothing else. Several readings of the code are worth knowing: the limit of a job covers
neither the creation of the venv nor pip, nor the script as long as its output is
open (`HardLimit`); when the creation of the venv fails or is cancelled its directory
stays, because `cleanup` was never told of it (`NothingLeft` speaks of the directory
`cleanup` knows of); the lines of one stream stay in order but the streams are
interleaved in the order in which their readers ran; the exit status of the script
is logged and does not affect the status of the run (`executor.py:260`).

`DockerRun`: the daemon owns `image` and `container`. Every request but one runs in a
thread while the event loop goes on: it is performed and answered, or fails, in
which case it may have been performed all the same (`Fails`). A cancelled
coroutine leaves its thread behind (`orphans`), whose request is performed at any
later time, also after the cleanup (`Late`). `missed` is the history of the requests
that failed or were cut off, and `DaemonClean` says which of them accounts for what
is left; the build context may be "stuck" like a venv. The exception to the rule is the log stream, iterated on the event loop:
between two chunks nothing else happens in the process, which is why listeners cannot
join or leave there (`LoopBlocked`) and no cancellation arrives. A Docker job with a
timeout never runs to its end: `asyncio.timeout` is called with a generator and a delay
(`executor.py:425`), a `TypeError` that `Timed` models. What blocks in one run blocks
the others too; the composition with `RunEngine` is not made, as `RunEngine` knows of
no duration.

### Analytics

One request is followed at a time, as requests change nothing. It takes its cutoff
from the clock, awaits its queries, and the heatmap reads the clock again when it
fills in the days. `started_at` is taken up to `InsertDelay` before its row
appears. A cancelled run has a finish time and the status RUNNING, so it is
"finished" for the trend and the anomalies but in no count. z-scores are compared
by their squares in exact integers; where floating-point numbers may go either way,
the verdict is nondeterministic: z exactly at the threshold (the docstring says
"exceeds", the code `>=`), and, with `z_threshold = 1.0`, which the API allows,
durations that are all equal, of which the rounded mean may differ so that the check
for a deviation of zero (`analytics.py:222`) does not help. Three more
readings: the heatmap has `days + 1` entries, the first for a part of a day; with
PostgreSQL, where `date()` returns a date, its keys are never found and every entry is
zero (`Lookup`, `DateIsText`; `analytics.py:115`); the reported jobs are those that were
active when the request began.

### RunContext

Both tables are written by requests that read, await and then commit what they
decided. A commit finds its row by id, so the numbering of rows matters: SQLite,
the default database, gives the id of a deleted newest row again (`NewId`), other
databases do not, and the models cover both. `latest` is a history variable, what
the last successful request for a secret was told; `raced` collects the names for
which requests overlapped, where a request that holds the id of a row counts for
whatever name the row has by now. The properties speak of the names outside
`raced`; inside it

- two upserts of a new name insert two rows, and from then on every request for
  the name raises, and a run uses either value;
- an upsert whose row was deleted, and its id given to another secret, overwrites
  that other secret (SQLite), or raises (elsewhere);
- an upsert that found the row before a delete and commits after it raises; one
  that commits first is lost to the delete.

Names are stored in capitals and looked up as they are spelled in the placeholder,
so that one in lower case is a missing secret. A secret that is missing, or that
the key of this process cannot decrypt, makes the resolver raise; `_run_job_inner`
logs that and runs the job with all placeholders in place (`Resolve`), where
`README.md:68` says that the error comes before the execution continues. The owner
of a secret is written and never read, so an upsert overwrites the secret of
another user although its docstring says "for this user".

`MergeParams` writes the parameters of a webhook into a row object that is detached
when its session ends and never committed; the run that follows loads the row
again (`webhooks.py:107`). The parameters never reach the run, which
`README.md:197`, `webhooks.py:50` and `webhooks.py:104` say they do.

`SecretsWhole` is about the secrets alone: a run gets all of them or none, also if
requests raced for them; and if none did, as they were last set, and all of them if the
key can read them. It does not say that the environment of a run is the one the
documents promise: a run whose secrets cannot be read is executed without any
(`README.md:68`), and one that a webhook triggered is executed without its parameters
(`README.md:197`). Both sentences are false of this code and no run states them. No
endpoint sets `webhook_enabled` (`jobs.py:198` creates jobs with `False`): the
model starts from rows where it is set, as the tests do.

The policies of a run are those that were loaded with its job (`loaded`); a policy
changed during the run is notified by its old text. `standing` is the history of
those that did not change, and `AlertsExact` says of these what it must say.
On SQLite `started_at` comes back from `refresh` without a time zone while
`finished_at` has one, their difference is a `TypeError`, and a run of a job with
policies notifies nobody (`TimesDiffer`); `AlertsExact` is about the databases
that keep the time zone. The channel and the payload of an alert, and the test
notification, are left out: they change nothing here.

Scheduling, permits and the history row are `RunEngine`'s and do not appear again.

## The runs

| Run | Bounds | Shows |
|---|---|---|
| `engine` | 3 tasks, 2 permits, 1 Docker job, 3 rows, 1 shutdown or crash, statements may fail | permits, queue and rows are consistent; scheduled fires of a job do not overlap; the engine implements the ledger |
| `engine_live` | 2 tasks, 1 permit, 1 venv job, 3 rows, 1 stop | waiters are served, runs get their result, a shutdown completes |
| `engine_limit` (violated) | 1 permit, 2 tasks | two pipeline nodes execute at once, and neither has a permit |
| `registry` | 2 jobs, 2 request slots, 3 requests, a cron, a date and a bad trigger, 1 restart, any statement may fail | table and scheduler agree but for overlaps and failed commits; the token is the one committed last |
| `registry_race` (violated) | 1 job, 3 requests | an update revives a deleted job |
| `toposort` | all lists of up to 4 edges over 4 jobs | Kahn's algorithm as coded is correct, parallel edges and cycles included |
| `pipeline` | 4 graphs over 3 jobs; an execution beside 1 request or beside 1 foreign run or pause, or 3 requests in 2 slots alone | the runner implements the walk, the edges are obeyed and every node is decided; pipelines are what was answered |
| `script_run` | 3 venv jobs (both streams and a timeout; requirements, of which pip prints lines with a tag's letters first; a line too long) and 2 Docker jobs (streamed; with a timeout), pipes of 1 line, 2 listeners, 1 shutdown, any request of the daemon and any write or removal of a file may fail | the log is faithful, listeners miss nothing, nothing is left behind without cause, the run ends |
| `venv_limit` (violated) | the same jobs, 1 listener, no shutdown | a script with its output open outlives its timeout |
| `docker_blocks` (violated) | the same | a silent container keeps a browser from connecting |
| `analytics` | 2 jobs, 3 rows, a clock of 3 ticks that passes midnight once, days of 2 ticks, a window of 1 day, a limit of 2, a sample of 3, a threshold of 5/4 | no run of the window is lost; finished runs are not pushed out; reports are rare and spikes reported |
| `run_context` | 3 requests, edits or restarts, 2 request slots for secrets and 1 for policies, 3 spellings of 2 names, 2 values, 2 keys, 1 job, 1 run, both kinds of numbering | the secrets table holds what was answered; a run gets all its secrets, as last set, or none; each policy is notified once, and rightly |

Why the bounds are enough: the semaphore needs two holders and a waiter for a
hand-over to go wrong, and three rows for a row to be confused with an older and
a newer one; a lost update needs two requests and a third that created the job;
the sort needs four edges for a diamond and for a pair of parallel edges on a
path; an execution needs three nodes for a skip to propagate and one foreign row
to be confused with its own; two updates of one pipeline and a third request are
what it takes for edges to be lost, doubled or revived, and an execution reads
the edges once, so one request beside it is enough; a pipe of one line blocks a
writer at its second line, two streams of which one has two lines show both losses
and reorderings, and a second listener sees what the first one's failure does to
it; a Docker run meets each request once, so that no bound but its two chunks is
needed; an id is given to a second secret while a request holds it after three
requests, given that the table has one secret at the start, and runs do not write
what other runs read, so that one is enough; a clock that passes midnight once
puts the query and the answer, or two rows, on different days, and three runs are
the fewest of which one can stand out at a threshold above 1. In `Analytics` rows do
not change between the last query and the answer (`Waiting`), when nothing
reads them. Task and request identities are interchangeable and reused, so symmetry
is used where only safety is checked.

Deadlock is not checked where the bounded environment runs out of requests
or the run is over (`registry`, `toposort`, `pipeline`, `script_run`, `run_context`,
`analytics`); the engine can always be stopped, restarted or reconfigured.

### Fairness

`LoopFairness`: the event loop resumes a task whose await is over, and a shutdown
that has begun continues. Nothing is assumed about requests, fires or crashes.
`ScriptsEnd` - the script of every run ends - is not the engine's to enforce (a
job need not have a timeout), so it is a premise of the two properties that need
it, and `StopCompletes` does without it. `EveryNodeDecided` assumes the same of
pipeline nodes.

`ScriptRun` assumes of the loop the same, that timers fire, and that a send to a
browser ends: uvicorn closes a connection that answers no ping. `RunEnds` has as its
premises that programs print what they have to and exit (`ProgramWork`), that the
Docker daemon answers each request one way or the other (`DaemonAnswers`), and that no
line is too long; `HardLimit` has none of them. `Connects` has as its premise
a browser that keeps trying, and only the server to blame. The analytics, the
registry and the run context have safety properties only, and no fairness.

### What the code does and a document says otherwise

Four runs find a violation of what the documentation promises: `engine_limit`,
`registry_race`, `venv_limit` and `docker_blocks` (`findings` in `PROJECT.json`). The
models describe further disagreements, which the sections above name where they
arise: the result of a node read from a run that has not completed, the cycle that two
updates leave, the timeout of Docker jobs, the empty heatmap of PostgreSQL (which
`.env.example` recommends), the parameters of a webhook that never reach the run,
alerts on SQLite, and missing secrets that do not stop a run.

## What is proved

`RunEngineProofs` proves, for any sets of jobs and tasks (tasks finite), any
limit and any bounds: `TypeCorrect`, `SlotsAccounted`, `SlotBound`, `RowsOwned`,
`LedgerImplemented`, `FiresNeverOverlap` and `OpenRowsAttended`. The inductive invariant is

    IndInv == TypeOK /\ StageShape /\ QueueExact /\ SlotAccounting /\ OwnRow

Neither `SlotAccounting` nor `OwnRow` is inductive alone. Releasing a permit
moves the head of the queue into the semaphore, so the accounts need the queue
to hold exactly the waiting tasks, each once (`QueueExact`); a pipeline node
must never be found in the queue or hold a permit (`StageShape`); a commit must
find its row open, which follows from no two tasks sharing one (`OwnRow`) and
from rows being handed out by the insert only. Each conjunct has its own step
lemma, with one case per action; leaving a task is a step many actions share and
has its own lemma per conjunct. The refinement needs the invariant, as `WriteResult` has
none of the guards of `Close`: that the row is open is `OwnRow`, and that it is closed
as RUNNING only while the process is being stopped is `StopShape`, an invariant of its
own. With these a `Persist`, a cancelled one included, maps to `Close` of the owned row,
an `Insert` to `Open`, a shutdown, crash or restart to `StopOrStart`, everything else to
a stutter. `FiresNeverOverlap` rests on `SingleFire`, which looks at tasks
from their first stage on, where `NoScheduledOverlap` looks at those that execute;
a task keeps its job and origin until it ends (`Inherits`). `OpenRowsAttended` has
two premises that the run `engine_live` has too: all jobs are venv jobs (the cleanup
of a Docker job may raise and leave its row open, `CleanupRaises`), and no statement
fails (`DbFails` does the same). Until the first stop every open row then has a task
about to close it (`Attended`).

`TopologicalSortProofs` proves, for every list of edges over any set of jobs,
parallel edges included: `TypeCorrect`, `SortCorrect` (a returned order is
topological) and `CycleDetected` (the error is raised exactly for cyclic lists).
The inductive invariant is

    IndInv == TypeOK /\ Degrees /\ Distinct /\ Frontier /\ Ordered /\ Avoided /\ Decided

`Degrees` says that `in_degree` counts the edges whose upstream was not visited
yet, so that subtracting the edges of one iteration is a set difference of which
the cardinality is known; `Frontier` says that a job is queued or visited exactly
when none of its edges is pending, which makes the freed jobs new (`Distinct`)
and puts upstream first (`Ordered`). For the error, the jobs never visited wait
for each other; for the order, `Avoided` says that jobs which wait for each other
are never queued. That the length of the order decides (`CountDecides`) is a
pigeonhole argument: the order is an injection.

`RunContextProofs` proves `SecretsAsAnswered` and, on top of it, `SecretsComeWhole`,
`TypeCorrect` and `AlertsAlwaysExact`, for any names, spellings, values, keys, policies,
jobs, requests and runs. The inductive invariant of the secrets table is

    VaultInv == VaultTypeOK /\ IdsUnique /\ ReadStands /\ ContendedSeen /\ AsAnswered

A commit does what its request was told only if what the request read still holds
(`ReadStands`): its row is there, still of that name, and the only one. What can
break that is another request for the name, or one that holds the id of a row of
the name; such a pair is in `raced` from the moment it exists (`ContendedSeen`).
A new row takes an id that no row has (`IdsUnique`, by `NewIdFacts`), but maybe one
that an old request holds, which is why `About` looks at ids as well as names.
For the secrets a run adds its own shape only (`RunShape`): the policy and
secret requests leave a run as it is, and the one step that resolves reads a table
of which the invariant says all that is needed. The whole invariant is

    ContextInv == VaultInv /\ PoliciesInv /\ RunShape /\ RunsInv

The policies need their table to be finite, so that a new row has a largest id to
follow, and each request in flight to carry a body that its commit can write
(`PoliciesInv`). A run that reports has sent one notification for each policy it has
taken from its list and found due, and none for the others (`RunsInv`); the list is
that of the policies it loaded, so that no policy is met twice, and `standing` only
shrinks, which is what makes the verdict of `Consider` still right at the end.

`JobRegistryProofs` proves `TypeCorrect`, `StoresAlwaysAgree`, `EntriesInReach`,
`TokensAsTold` and `DeletedStays`, for any sets of jobs, requests and triggers, finite
or not. The inductive invariant is

    IndInv == TypeOK /\ Alone /\ RowFirst /\ CopyShape /\ CopyCurrent
              /\ ScheduleKept /\ IdKept /\ TornHasRow /\ TokensBounded /\ TokenAsTold

That the two stores agree is true between requests only, so `ScheduleKept` says what
APScheduler agrees with at each stage of one: the row until the call to APScheduler,
the row that will be committed after it. This needs the request to be the only one
that plans a schedule (`Alone`) and its copy of the row to be still true
(`CopyCurrent`), except for the token, which a request to regenerate it may change
at any time: that is why `CopyCurrent` compares the other columns and why
`TokenAsTold` rests on the commit writing changed columns only (`CopyShape`).
`IdKept` needs none of this: a scheduler id, once in a row, stays there, also under
overlapping requests; an entry whose id a failed commit kept from its row is in `torn`
(`StatementFails`), and a commit takes the job out of there only if it leaves the row with the id.
`RowFirst` keeps a job that is being created from being
found by others; `TokensBounded` says that a fresh token exists.

`PipelineRunnerProofs` proves `TypeCorrect`, `EdgesAlwaysObeyed`, `NeverStale`,
`WalkImplemented` and `ArchivedForGood`, for any jobs, pipelines, edge lists, requests
and executions. The inductive invariant is `EditsTypeOK`, the types of the shared
variables and, for each execution,

    ExecInv == Typed /\ LoopShape /\ RowShape /\ Obedient /\ NotStale

`LoopShape` says that the order is a topological one of the edges the execution has
loaded and that the decided nodes are those before its place in it; so what is
upstream of the current node is decided, and no result that a decision rests on is
written again, which makes the edges stay obeyed (`Obedient`). `BlockedFacts` is
about parallel edges: one condition per pair of jobs refuses exactly if an edge that
no later one overrides does. `RowShape` says that the row an execution opened is a
row of the job and is closed before a result is read, hence that the newest row is
that one or a later one (`NotStale`). None of this is disturbed by the others, who
only extend the ledger and the numbering (`Extends`, `Stable`). The refinement then
takes one lemma per action. `ArchivedForGood` adds that without a clash at most one
request in flight writes the status of a pipeline, which was not archived when it
came (`StatusInv`). `PipelinesKept` is about the edges: without a clash a request that
sets the edges of a pipeline is the only one that does, and the rows it has loaded are
those of the pipeline still (`EdgesInv`). Its commit deletes exactly these and
inserts the new ones with the next ids, in the order of the list;
that the table then lists what was answered (`Listed`) is an argument about ranks
of ids (`RankFacts`, `FreshListed`). That the sort returns a topological order is a premise here and the
theorem of `TopologicalSortProofs`.

`ScriptRunProofs` proves `TypeCorrect`, `LogsFaithful`, `ListenersServed`,
`NothingLeftBehind` and `DaemonLeftClean`, for any jobs, programs, sizes of a pipe and
listeners, with cancellation at any await. The inductive invariant is

    IndInv == Base /\ Remains /\ Owed /\ Exited /\ Flows /\ Counted /\ Fresh
              /\ Complete /\ Chunked /\ ListenersFollow

A line that was written is in a pipe, in the queue or in the log, and those of one
stream are in the order of writing within each place and from the log back to the pipe
(`Flows`: `PlaceOrder`, `Covered`). That the log is complete when the loop of the
multiplexer ends is a count: finished streams, sentinels in the queue and readers
that still read are always two (`Counted`), so the second sentinel taken means that
no reader is left, and being the last thing in the queue, that nothing is behind it.
What `Relayed` does to a line leaves its number and stream as they are, and cuts it
only if it may (`TakeFlow`). The stages then tell what a venv run still has (`Remains`) and what of a Docker run the
daemon has and which failed or cut off request accounts for it (`Owed`); a
thread that outlives a cancellation acts on these after the run is over, so the
invariant speaks of orphaned requests too (`Exited`).

`AnalyticsProofs` proves `TypeCorrect`, `WindowsCovered`, `TrendComplete`, `ReportsRare`
and `SpikesReported`, for any jobs, days, windows, limits, thresholds and tables. The inductive invariant is

    IndInv == TypeOK /\ CallShape /\ SinceEarly /\ StartedBefore /\ GroupedStands
              /\ WindowCovered /\ OpenRunsTakeNoPlace /\ ReportsRight

The cutoff was taken before the answer, so the window due at the answer lies within
the one that was read (`SinceEarly`); no row starts later than now (`StartedBefore`), so
each day in the window is among those filled in, also after midnight (`InHeatmap`);
what the query grouped is still so when it is filled in (`GroupedStands`). The rest is
counting: the counts of the statuses are those of disjoint sets of rows
(`CountsFacts`), and of a finite set the elements with fewer than `limit` above them
are the `limit` largest, or all (`LargestFacts`).

The reports are inequalities of sums. The library's sum of a set is a fold, of which
nothing can be computed without an induction; as the induction theorems cannot be
used, `Shrinking` descends through the subsets of the finite set instead, a
descent on their number of elements. From it follow that the fold is a function
that adds its elements one by one (`FoldExists`, `FoldAdds`) and then, each by the
same descent, that sums bound, split and multiply (`SumAtLeast`, `SumSplit`,
`SumConstant`). `SpreadOfSums` is the inequality of Cauchy and Schwarz in integers,
`Cantelli` the inequality that bounds how many runs may be as long as the last one;
`VerdictRare` applies it to what `Verdicts` computes, with either rounding at the
threshold. For a spike all sums are known, and `SpikeNumbers` is the computation.
A report speaks of runs that have ended, so nothing that happens after it changes
what it says (`ReportsRight`, `ReportStands`).

The constants of all modules are constrained by named assumptions only, which
TLC evaluates in the runs. Model-checked only is liveness (`QueueServed`,
`RunPersisted`, `StopCompletes`, `Terminates`, `EveryNodeDecided`, `RunEnds`), which the
provers cannot reach.

## Plan

A clock shared by `RunEngine` and a blocking container, to show what one silent
container does to the other jobs.

## Not modelled

- Authentication (`core/security.py`, `routers/auth.py`): signing, hashing and checking
  tokens is stateless computation in libraries; the one table it uses is only read
  after the start.
- Configuration and logging (`core/config.py`, `logging` as `main.py` sets it up): read once before
  anything else runs. What of it matters is a constant of the models (`Limit`,
  `Keys`, `DateIsText`, `sqlite`).
- The frontend: static pages that poll the API.
- The rest of the endpoints that only read; the text of notices, Dockerfiles, alerts
  and error messages.
