---------------------------- MODULE PipelineRunner ----------------------------
(***************************************************************************)
(* execute_pipeline of services/pipeline_runner.py, over the run history   *)
(* it shares with everything else that runs jobs, and over the pipelines   *)
(* that requests create, update and archive meanwhile (PipelineEdits).     *)
(*                                                                         *)
(* The sort is taken at its word (TopologicalSort: some topological order, *)
(* or an error for a cycle), and so is the engine (RunLedger: a row is     *)
(* opened and, unless something breaks, closed).                           *)
(***************************************************************************)
EXTENDS PipelineEdits

CONSTANTS
  Exec,     \* slots for executions of a pipeline
  Budgets   \* bound: how many executions, requests and other events there may be

Budget == [execs : Nat, requests : Nat, others : Nat]

ASSUME BudgetAssumption == Budgets \subseteq Budget

VARIABLES
  history,   \* run_history
  active,    \* the jobs whose row is ACTIVE
  exec,      \* per execution slot: the local variables of execute_pipeline
  execs,     \* bound: the executions still to come
  others     \* bound: the foreign runs, pauses and resumptions still to come

Ledger == INSTANCE RunLedger WITH up <- TRUE

vars == <<editVars, history, active, exec, execs, others>>

--------------------------------------------------------------------------------
IdleExec ==
  [stage |-> "idle", pipeline |-> 0, edges |-> << >>, order |-> << >>, next |-> 1,
   results |-> [j \in Job |-> "none"],  \* job_results
   own  |-> [j \in Job |-> 0],          \* the row the execution itself opened
   seen |-> [j \in Job |-> 0]]          \* the row its status was read from

Init ==
  /\ EditsInit
  /\ history = << >>
  /\ active = Job
  /\ exec = [e \in Exec |-> IdleExec]
  /\ \E b \in Budgets : execs = b.execs /\ requests = b.requests /\ others = b.others

Disturb == others > 0 /\ others' = others - 1

--------------------------------------------------------------------------------
(* execute_pipeline.                                                       *)

\* trigger_pipeline creates the task; only an archived pipeline is refused.
Trigger(e, p) ==
  /\ exec[e].stage = "idle"
  /\ pipelines[p] # "archived"
  /\ execs > 0 /\ execs' = execs - 1
  /\ exec' = [exec EXCEPT ![e] = [IdleExec EXCEPT !.stage = "start", !.pipeline = p]]
  /\ UNCHANGED <<editVars, history, active, others>>

\* Mutant of Start: the jobs are taken in no particular order, cycle or not.
StartUnsorted(e) ==
  LET es == EdgesOf(exec[e].pipeline)
      all == 1 .. Cardinality(Nodes(es))
  IN  /\ exec[e].stage = "start"
      /\ \E order \in [all -> Nodes(es)] :
           /\ \A k, l \in all : order[k] = order[l] => k = l
           /\ exec' = [exec EXCEPT ![e].stage = "decide", ![e].edges = es, ![e].order = order]
      /\ UNCHANGED <<editVars, history, active, execs, others>>

\* The edges are read once, whatever the status has become.  No edges, or a cycle: nothing is executed.
Start(e) ==
  LET es == EdgesOf(exec[e].pipeline)
  IN  /\ exec[e].stage = "start"
      /\ \/ /\ DOMAIN es = {} \/ Cyclic(es)
            /\ exec' = [exec EXCEPT ![e] = IdleExec]
         \/ /\ DOMAIN es # {} /\ ~Cyclic(es)
            /\ \E order \in TopologicalOrders(es) :
                 exec' = [exec EXCEPT ![e].stage = "decide", ![e].edges = es,
                                      ![e].order = order]
      /\ UNCHANGED <<editVars, history, active, execs, others>>

Current(x) == x.order[x.next]

\* Mutant of EffectiveCond: the first of parallel edges counts.
FirstCond(es, u, d) ==
  LET first == CHOOSE i \in EdgesBetween(es, u, d) : \A k \in EdgesBetween(es, u, d) : i <= k
  IN  es[first].cond

\* condition_map: of parallel edges, the last in the list.
EffectiveCond(es, u, d) ==
  LET last == CHOOSE i \in EdgesBetween(es, u, d) : \A k \in EdgesBetween(es, u, d) : k <= i
  IN  es[last].cond

\* Mutant of Permits: the FAILURE branch forgets TIMEOUT.
PermitsNoTimeout(cond, s) ==
  \/ cond = "success" /\ s = "success"
  \/ cond = "failure" /\ s = "failed"
  \/ cond = "always"

Permits(cond, s) ==
  \/ cond = "success" /\ s = "success"
  \/ cond = "failure" /\ s \in {"failed", "timeout"}
  \/ cond = "always"

Blocked(x) ==
  \E u \in Upstream(x.edges, Current(x)) :
    ~Permits(EffectiveCond(x.edges, u, Current(x)), x.results[u])

\* The result of the current node is known: on to the next.
Record(x, s) ==
  [x EXCEPT !.results[Current(x)] = s, !.next = @ + 1, !.stage = "decide"]

\* The loop is at a node that its upstream results allow, or do not allow, to run.
Allowed(x) == x.stage = "decide" /\ x.next <= Len(x.order) /\ ~Blocked(x)
Refused(x) == x.stage = "decide" /\ x.next <= Len(x.order) /\ Blocked(x)

\* Mutant of Skip: a skipped node gets a status that RunStatus does not have.
SkipSkipped(e) ==
  /\ Refused(exec[e])
  /\ exec' = [exec EXCEPT ![e] = Record(@, "skipped")]
  /\ UNCHANGED <<editVars, history, active, execs, others>>

\* A skipped node is recorded as PENDING.
Skip(e) ==
  /\ Refused(exec[e])
  /\ exec' = [exec EXCEPT ![e] = Record(@, "pending")]
  /\ UNCHANGED <<editVars, history, active, execs, others>>

\* _run_job_inner inserts a row, or returns at once if the job is not active.
RunNode(e) ==
  LET j == Current(exec[e])
  IN  /\ Allowed(exec[e])
      /\ \/ /\ j \in active
            /\ Ledger!Open(j)
            /\ exec' = [exec EXCEPT ![e].stage = "run", ![e].own[j] = Len(history')]
         \/ /\ j \notin active
            /\ exec' = [exec EXCEPT ![e].stage = "read"]
            /\ UNCHANGED history
      /\ UNCHANGED <<editVars, active, execs, others>>

NodeEnds(e) ==
  LET x == exec[e]
  IN  /\ x.stage = "run"
      /\ \E s \in Ledger!FinalStatus : Ledger!Close(x.own[Current(x)], s)
      /\ exec' = [exec EXCEPT ![e].stage = "read"]
      /\ UNCHANGED <<editVars, active, execs, others>>

InNode(x) == Allowed(x) \/ x.stage \in {"run", "read"}

\* Mutant of NodeRaises: the exception leaves the loop.
NodeRaisesAborts(e) ==
  /\ InNode(exec[e])
  /\ exec' = [exec EXCEPT ![e].stage = "done"]
  /\ UNCHANGED <<editVars, history, active, execs, others>>

\* An exception from _run_job_inner or from the query counts as a failed node;
\* the row of the run, if there is one, stays as it is.
NodeRaises(e) ==
  /\ InNode(exec[e])
  /\ exec' = [exec EXCEPT ![e] = Record(@, "failed")]
  /\ UNCHANGED <<editVars, history, active, execs, others>>

RowsOf(j) == {r \in DOMAIN history : history[r].job = j}

\* Mutant of LastRow: the oldest row, an ascending sort.
FirstRow(j) ==
  IF RowsOf(j) = {} THEN 0 ELSE CHOOSE r \in RowsOf(j) : \A q \in RowsOf(j) : r <= q

LastRow(j) ==
  IF RowsOf(j) = {} THEN 0 ELSE CHOOSE r \in RowsOf(j) : \A q \in RowsOf(j) : q <= r

\* _get_last_run_status: the newest row of the job, whoever opened it and whether
\* or not it has ended; FAILED if there is none.
ReadResult(e) ==
  LET x == exec[e]
      j == Current(x)
      r == LastRow(j)
  IN  /\ x.stage = "read"
      /\ exec' = [exec EXCEPT ![e] =
                    Record([x EXCEPT !.seen[j] = r],
                           IF r = 0 THEN "failed" ELSE history[r].status)]
      /\ UNCHANGED <<editVars, history, active, execs, others>>

Complete(e) ==
  /\ exec[e].stage = "decide" /\ exec[e].next > Len(exec[e].order)
  /\ exec' = [exec EXCEPT ![e].stage = "done"]
  /\ UNCHANGED <<editVars, history, active, execs, others>>

Advance(e) ==
  \/ Start(e) \/ Skip(e) \/ RunNode(e) \/ NodeEnds(e) \/ NodeRaises(e)
  \/ ReadResult(e) \/ Complete(e)

--------------------------------------------------------------------------------
(* Schedules, requests and other pipelines run the same jobs; operators    *)
(* pause and resume them.                                                  *)

OwnRows == {exec[e].own[j] : e \in Exec, j \in Job}

OtherOpens(j) ==
  /\ Disturb
  /\ j \in active
  /\ Ledger!Open(j)
  /\ UNCHANGED <<editVars, active, exec, execs>>

OtherCloses(r, s) ==
  /\ r \notin OwnRows
  /\ Ledger!Close(r, s)
  /\ UNCHANGED <<editVars, active, exec, execs, others>>

Toggle(j) ==
  /\ Disturb
  /\ active' = IF j \in active THEN active \ {j} ELSE active \cup {j}
  /\ UNCHANGED <<editVars, history, exec, execs>>

Next ==
  \/ \E e \in Exec : Advance(e) \/ \E p \in DOMAIN pipelines : Trigger(e, p)
  \/ EditNext /\ UNCHANGED <<history, active, exec, execs, others>>
  \/ \E j \in Job : OtherOpens(j) \/ Toggle(j)
  \/ \E r \in DOMAIN history, s \in Ledger!FinalStatus : OtherCloses(r, s)

Spec == Init /\ [][Next]_vars

\* The event loop resumes an execution; a node that runs comes to an end.
Fairness == \A e \in Exec : WF_vars(Advance(e))

FairSpec == Spec /\ Fairness

--------------------------------------------------------------------------------
\* What all this amounts to (PipelineWalk): what an execution goes by, has found out
\* and is waiting for.
Walk == INSTANCE PipelineWalk
          WITH plan    <- [e \in Exec |-> exec[e].edges],
               results <- [e \in Exec |-> exec[e].results],
               current <- [e \in Exec |-> IF exec[e].stage \in {"run", "read"}
                                         THEN {Current(exec[e])} ELSE {}]

NodeResult == Ledger!RunStatus \cup {"pending", "none"}

\* The edges the executions have loaded.
Loaded == {exec[e].edges : e \in Exec}

TypeOK ==
  /\ EditsTypeOK
  /\ history \in Seq(Ledger!Row)
  /\ active \subseteq Job
  /\ execs \in Nat /\ others \in Nat
  /\ \A es \in Loaded : DOMAIN es \subseteq 1 .. numbered /\ es \in [DOMAIN es -> Edge]
  /\ exec \in [Exec ->
        [stage : {"idle", "start", "decide", "run", "read", "done"}, pipeline : Nat,
         edges : Loaded,
         order : Seq(Job), next : Nat \ {0}, results : [Job -> NodeResult],
         own : [Job -> 0 .. Len(history)], seen : [Job -> 0 .. Len(history)]]]

Decided(x, j) == x.results[j] # "none"

\* The results an execution ends up with obey every edge that no later parallel
\* edge overrides: a node was skipped exactly when one of them is not satisfied,
\* long after the decision was taken (pipeline_runner.py:146-188).
EdgesObeyed ==
  \A e \in Exec : LET x == exec[e] IN
    \A j \in Nodes(x.edges) : Decided(x, j) =>
      (x.results[j] = "pending" <=>
         Walk!Refusing(x.edges, x.results, j) # {})

\* An execution implements the walk: it keeps to the edges it loaded while the
\* pipeline is changed or archived under it, takes the nodes one at a time, each after
\* everything upstream of it, runs those no edge refuses, skips the others, and a
\* node that fails or raises neither stops it nor changes the result of another
\* (pipeline_runner.py:115-209).
ImplementsWalk == Walk!Spec

\* A result is never older than the execution's own run of the node: it is the
\* outcome of that run, or comes from a newer run of the same job
\* (pipeline_runner.py:217-229).
ResultNotStale ==
  \A e \in Exec : LET x == exec[e] IN
    \A j \in Job : x.seen[j] # 0 /\ x.own[j] # 0 =>
      /\ x.seen[j] >= x.own[j]
      /\ x.seen[j] = x.own[j] => x.results[j] \in Ledger!FinalStatus
                                 /\ x.results[j] = history[x.own[j]].status

\* One failing, raising or skipped node never keeps another from being decided: an
\* execution that starts its loop comes to the end with a result for every node
\* (pipeline_runner.py:164-209).
EveryNodeDecided ==
  \A e \in Exec :
    exec[e].stage = "decide"
      ~> exec[e].stage = "done" /\ \A j \in Nodes(exec[e].edges) : Decided(exec[e], j)
================================================================================
