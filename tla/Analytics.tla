------------------------------- MODULE Analytics -------------------------------
(***************************************************************************)
(* services/analytics.py: the statistics of run_history, asked for while   *)
(* runs begin and end and the clock moves on.                              *)
(*                                                                         *)
(* One request at a time is followed.  It takes its cutoff from the clock, *)
(* awaits one or more queries, and works its answer out of their rows,     *)
(* with the clock read again for the heatmap.  A request is at             *)
(*   count   awaiting the number of active jobs (summary)                  *)
(*   jobs    awaiting the list of active jobs (anomalies)                  *)
(*   query   awaiting rows of run_history                                  *)
(*   read    the rows are there, the coroutine has not been resumed        *)
(*   done    answered                                                      *)
(***************************************************************************)
EXTENDS Integers, Sequences, FiniteSetsExt

CONSTANTS
  Job,            \* the rows of the jobs table
  None,
  DateIsText,     \* whether date() answers text, as in SQLite, or a date, as in PostgreSQL
  Day,            \* ticks of the clock in a day
  Days,           \* the parameter days of the heatmap
  Limit,          \* the parameter limit of the duration trend
  Cap, MinRuns,   \* runs an anomaly is judged by: at most (100) and at least (5)
  Threshold,      \* z_score_threshold, a fraction <<numerator, denominator>>
  Ending,         \* the statuses a run ends with
  InsertDelay,    \* bound: ticks between started_at and the commit of a new row
  MinTime,        \* the clock at the start
  MaxTime,        \* bound: ticks
  MaxRuns         \* bound: rows

ASSUME ClockAssumption ==
  MinTime \in Int /\ MaxTime \in Int /\ MinTime <= MaxTime /\ InsertDelay \in Nat
ASSUME WindowAssumption == Day \in Nat \ {0} /\ Days \in Nat \ {0}
ASSUME SampleAssumption == Limit \in Nat \ {0} /\ Cap \in Nat /\ MinRuns \in Nat \ {0}
ASSUME ThresholdAssumption ==
  /\ Threshold \in (Nat \ {0}) \X (Nat \ {0})
  /\ Threshold[1] >= Threshold[2]

VARIABLES
  now,        \* the clock, in ticks
  runs,       \* the run_history table, indexed by row id
  call        \* the request

vars == <<now, runs, call>>

--------------------------------------------------------------------------------
(* The table and the clock.                                                *)

FinalStatus == {"success", "failed", "timeout"}
RunStatus   == FinalStatus \cup {"running"}

ASSUME EndingAssumption == Ending \subseteq RunStatus

Row == [job : Job, started : Int, finished : Int \cup {None}, status : RunStatus]

\* A cancelled run has a finish time and stays RUNNING; see RunLedger.
Finished    == {r \in DOMAIN runs : runs[r].finished # None}
RunsOf(j)   == {r \in DOMAIN runs : runs[r].job = j}
Duration(r) == runs[r].finished - runs[r].started
DayOf(time) == time \div Day

\* Bound: nothing that cannot change an answer happens between the last query
\* and the answer.
Waiting == call.stage \notin {"read", "done"}

Tick ==
  /\ now < MaxTime /\ call.stage # "done"
  /\ now' = now + 1
  /\ UNCHANGED <<runs, call>>

\* started_at is taken before the commit that gives the row its id, and commits
\* of two tasks may be in either order.
OpenRun(j) ==
  /\ Len(runs) < MaxRuns /\ Waiting
  /\ \E late \in 0 .. InsertDelay :
       runs' = Append(runs, [job |-> j, started |-> now - late,
                             finished |-> None, status |-> "running"])
  /\ UNCHANGED <<now, call>>

CloseRun(r, status) ==
  /\ r \notin Finished /\ Waiting
  /\ runs' = [runs EXCEPT ![r].finished = now, ![r].status = status]
  /\ UNCHANGED <<now, call>>

--------------------------------------------------------------------------------
(* A request.                                                              *)

Op == {"summary", "heatmap", "trend", "anomalies"}

NoCall == [op |-> "none", stage |-> "idle", job |-> None, since |-> 0, todo |-> {}, result |-> None]

Init ==
  /\ now = MinTime
  /\ runs = << >>
  /\ call = NoCall

FirstStage(op) == CASE op = "summary" -> "count" [] op = "anomalies" -> "jobs" [] OTHER -> "query"

\* The window of the summary is 24 hours, that of the heatmap `days` times as long.
Window(op) == CASE op = "summary" -> Day [] op = "heatmap" -> Days * Day [] OTHER -> 0

Ask(op, j) ==
  /\ call = NoCall
  /\ j = None <=> op \in {"summary", "anomalies"}
  /\ call' = [NoCall EXCEPT !.op = op, !.stage = FirstStage(op), !.job = j,
                            !.since = IF Window(op) > 0 THEN now - Window(op) ELSE 0]
  /\ UNCHANGED <<now, runs>>

At(op, stage) == call.op = op /\ call.stage = stage /\ UNCHANGED <<now, runs>>

\* A query found rows, from which the code has made `result`.
Found(stage, result) == call' = [call EXCEPT !.stage = stage, !.result = result]

\* The rows of each final status: GROUP BY status, or the sums of CASE.
Counts(rows) == [s \in FinalStatus |-> Cardinality({r \in rows : runs[r].status = s})]

\* The number of active jobs is left out of the answer.
CountJobs ==
  /\ At("summary", "count")
  /\ call' = [call EXCEPT !.stage = "query"]

Summarise ==
  /\ At("summary", "query")
  /\ Found("done", Counts({r \in DOMAIN runs : runs[r].started >= call.since}))

--------------------------------------------------------------------------------
(* The heatmap.                                                            *)

Entry(rows) == [total |-> Cardinality(rows), counts |-> Counts(rows)]

GroupByDay ==
  /\ At("heatmap", "query")
  /\ LET rows == {r \in RunsOf(call.job) : runs[r].started >= call.since}
         on(d) == {r \in rows : DayOf(runs[r].started) = d}
     IN  Found("read", [d \in {DayOf(runs[r].started) : r \in rows} |-> Entry(on(d))])

\* Mutant of HeatmapDays: as many entries as days.
HeatmapDaysExact(today) == (today - Days + 1) .. today

\* range(days, -1, -1) counts down to today: one entry more than `days`.
HeatmapDays(today) == (today - Days) .. today

\* Mutant of Lookup: a day without runs has no entry to fall back on.
LookupNothing(rows, d) == IF DateIsText /\ d \in DOMAIN rows THEN rows[d] ELSE None

\* The entries are looked up by the text of their date, under which PostgreSQL has
\* put none.
Lookup(rows, d) == IF DateIsText /\ d \in DOMAIN rows THEN rows[d] ELSE Entry({})

\* The coroutine is resumed, maybe on the next day, and fills in the empty days.
FillIn ==
  /\ At("heatmap", "read")
  /\ call' = [call EXCEPT !.stage = "done",
                          !.result = [d \in HeatmapDays(DayOf(now)) |-> Lookup(call.result, d)]]

--------------------------------------------------------------------------------
(* Durations.                                                              *)

\* Mutant of Newest: the limit is applied to all rows, before those that have not
\* finished are dropped.
NewestOfAll(rows, k) ==
  {r \in rows \cap Finished : Cardinality({q \in RunsOf(runs[r].job) : q > r}) < k}

\* ORDER BY id DESC LIMIT k, of the rows with both times.
Newest(rows, k) ==
  {r \in rows \cap Finished : Cardinality({q \in rows \cap Finished : q > r}) < k}

\* The trend lists these runs oldest first, that is by id.
ReadTrend ==
  /\ At("trend", "query")
  /\ Found("done", Newest(RunsOf(call.job), Limit))

Total(rows)   == MapThenSumSet(Duration, rows)
Squares(rows) == MapThenSumSet(LAMBDA r : Duration(r) * Duration(r), rows)

\* For n runs n times the last duration less their sum is n times its distance
\* from the mean, and n times the sum of squares less the square of the sum
\* is n * n times their variance, that of the whole population.
Lead(rows)   == Cardinality(rows) * Duration(Max(rows)) - Total(rows)
Spread(rows) == Cardinality(rows) * Squares(rows) - Total(rows) * Total(rows)

\* The sign of (z - z_score_threshold), by comparing squares.
Against(rows, spread) ==
  LET left == Threshold[2] * Threshold[2] * Lead(rows) * Lead(rows)
      right == Threshold[1] * Threshold[1] * spread
  IN  IF Lead(rows) <= 0 \/ left < right THEN "below" ELSE IF left = right THEN "at" ELSE "above"

\* Mutant of Verdicts: an unusually short run is reported too.
VerdictsEitherWay(rows) ==
  {/\ Cardinality(rows) >= MinRuns /\ Spread(rows) > 0
   /\ Threshold[2] * Threshold[2] * Lead(rows) * Lead(rows) >= Threshold[1] * Threshold[1] * Spread(rows)}

\* Mutant of Verdicts: the deviation is that of a sample.
VerdictsOfSample(rows) ==
  LET n == Cardinality(rows)
  IN  {/\ n >= MinRuns /\ Spread(rows) > 0 /\ Lead(rows) > 0
       /\ Threshold[2] * Threshold[2] * Lead(rows) * Lead(rows) * (n - 1)
            > Threshold[1] * Threshold[1] * Spread(rows) * n}

\* Whether the last of these runs is reported.  The code computes with floats, so
\* that it may go either way when z is exactly the threshold; and when all
\* durations are equal their float mean may differ from them by a rounding error,
\* which makes z 1 or -1.
Verdicts(rows) ==
  IF Cardinality(rows) < MinRuns THEN {FALSE}
  ELSE IF Spread(rows) = 0 THEN {FALSE, Threshold[1] = Threshold[2]}
  ELSE CASE Against(rows, Spread(rows)) = "below" -> {FALSE}
         [] Against(rows, Spread(rows)) = "at"    -> BOOLEAN
         [] OTHER                                 -> {TRUE}

\* Which jobs are active is up to the requests JobRegistry is about, and may have
\* changed when their runs are read.
ListJobs ==
  /\ At("anomalies", "jobs")
  /\ \E active \in SUBSET Job :
       call' = [call EXCEPT !.stage = "query", !.todo = active]

\* One query for each job listed.  Of the list of reports, result keeps the verdict
\* that was reached last.
Judge(j) ==
  /\ At("anomalies", "query")
  /\ j \in call.todo
  /\ LET rows == Newest(RunsOf(j), Cap)
     IN  \E flagged \in Verdicts(rows) :
           call' = [call EXCEPT !.todo = @ \ {j}, !.result = [rows |-> rows, flagged |-> flagged]]

AllJudged ==
  /\ At("anomalies", "query")
  /\ call.todo = {}
  /\ call' = [call EXCEPT !.stage = "done", !.result = None]

--------------------------------------------------------------------------------
Answered(op) == call.op = op /\ call.stage = "done"

Sent == call.stage = "done" /\ call' = NoCall /\ UNCHANGED <<now, runs>>

Next ==
  \/ Tick
  \/ \E j \in Job : OpenRun(j) \/ Judge(j)
  \/ \E r \in DOMAIN runs, status \in Ending : CloseRun(r, status)
  \/ \E op \in Op, j \in Job \cup {None} : Ask(op, j)
  \/ CountJobs \/ Summarise
  \/ GroupByDay \/ FillIn
  \/ ReadTrend
  \/ ListJobs \/ AllJudged
  \/ Sent

Spec == Init /\ [][Next]_vars

--------------------------------------------------------------------------------
EntryType == [total : Nat, counts : [FinalStatus -> Nat]]

TypeOK ==
  /\ now \in MinTime .. MaxTime
  /\ runs \in Seq(Row)
  /\ call.op \in Op \cup {"none"} /\ call.job \in Job \cup {None}
  /\ call.stage \in {"idle", "count", "jobs", "query", "read", "done"}
  /\ call.since \in Int /\ call.todo \subseteq Job
  /\ Answered("heatmap") => \A d \in DOMAIN call.result : call.result[d] \in EntryType
  /\ Answered("trend") => call.result \subseteq Finished

\* The summary and the heatmap lose no run of their window (analytics.py:71, "for
\* the last *days* days"; :29, runs_last_24h), though the window begins when the
\* request does and ends when it is answered, maybe on the next day: whatever
\* had started in the 24 hours, or `days` days, before the answer and was in the
\* table when it was read has been counted, in the entry of its own day.  With
\* PostgreSQL the heatmap is always empty.
Recent(length) == {r \in DOMAIN runs : runs[r].started >= now - length}
Ended(rows)    == {r \in rows : runs[r].status \in FinalStatus}
Sum(counts)    == counts["success"] + counts["failed"] + counts["timeout"]

SummaryCovers ==
  Answered("summary") => Sum(call.result) >= Cardinality(Ended(Recent(Day)))

HeatmapCovers ==
  Answered("heatmap") /\ DateIsText =>
    /\ \A r \in Recent(Days * Day) \cap RunsOf(call.job) : DayOf(runs[r].started) \in DOMAIN call.result
    /\ \A d \in DOMAIN call.result :
         LET entry  == call.result[d]
             rows   == {r \in RunsOf(call.job) : DayOf(runs[r].started) = d}
             recent == Recent(Days * Day) \cap rows
         IN  /\ Cardinality(recent) <= entry.total /\ entry.total <= Cardinality(rows)
             /\ Cardinality(Ended(recent)) <= Sum(entry.counts) /\ Sum(entry.counts) <= entry.total

WindowCovered == SummaryCovers /\ HeatmapCovers

\* Runs that are still going, cancelled ones and those of other jobs do not push
\* finished runs out of the trend (analytics.py:129, "the last *limit* completed
\* runs"): a run is left out only for `limit` finished runs that are newer.
OpenRunsTakeNoPlace ==
  Answered("trend") =>
    \A r \in (Finished \cap RunsOf(call.job)) \ call.result :
      Cardinality(call.result) = Limit /\ \A q \in call.result : q > r

Judged == call.op = "anomalies" /\ call.result # None

\* A report is news (analytics.py:169, "anomalously long"): if the last run of a
\* job is reported at threshold t > 1, at most one in 1 + t * t of the runs it is
\* compared with, itself included, took as long.  So a job with fewer runs
\* than that is never reported, 26 of them for the highest threshold, 5.
AnomalyRare ==
  Threshold[1] > Threshold[2] =>
    (Judged /\ call.result.flagged =>
       LET rows == call.result.rows
       IN  Cardinality({r \in rows : Duration(r) >= Duration(Max(rows))})
             * (Threshold[2] * Threshold[2] + Threshold[1] * Threshold[1])
           <= Cardinality(rows) * Threshold[2] * Threshold[2])

\* And no spike is missed: if the runs before the last all took the same shorter
\* time and there are more than 1 + t * t in all, the last one is reported.
SpikeReported ==
  Judged =>
    LET rows   == call.result.rows
        before == rows \ {Max(rows)}
    IN  /\ Cardinality(rows) >= MinRuns
        /\ \A q, r \in before : Duration(q) = Duration(r)
        /\ \A r \in before : Duration(r) < Duration(Max(rows))
        /\ Cardinality(rows) * Threshold[2] * Threshold[2]
             > Threshold[2] * Threshold[2] + Threshold[1] * Threshold[1]
        => call.result.flagged
================================================================================
