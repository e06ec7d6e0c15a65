----------------------------- MODULE PipelineWalk -----------------------------
(***************************************************************************)
(* What an execution of a pipeline promises, however it is carried out and *)
(* whatever happens to the pipeline and its jobs meanwhile: it keeps to    *)
(* the edges it started with, takes the jobs one at a time, each after     *)
(* everything upstream of it, runs a job unless an edge into it refuses,   *)
(* and never goes back on a result.                                        *)
(***************************************************************************)
EXTENDS PipelineGraph

CONSTANT Exec

VARIABLES
  plan,     \* per execution: the edges it goes by
  results,  \* per execution: the results so far, by job
  current   \* per execution: the job that runs, if any, as a set

walkVars == <<plan, results, current>>

Ran == {"success", "failed", "timeout", "running"}
Result == Ran \cup {"pending", "none"}

Init ==
  /\ plan = [e \in Exec |-> << >>]
  /\ results = [e \in Exec |-> [j \in Job |-> "none"]]
  /\ current = [e \in Exec |-> {}]

\* What an edge asks of the result of its upstream job.
Satisfied(edge, s) ==
  /\ edge.cond = "success" => s = "success"
  /\ edge.cond = "failure" => s \in {"failed", "timeout"}

\* A later edge between the same jobs counts instead.
Overridden(edges, i) ==
  \E k \in EdgesBetween(edges, edges[i].up, edges[i].down) : k > i

\* The edges into a job that refuse it, by the results of one execution.
Refusing(edges, outcome, j) ==
  {i \in EdgesInto(edges, j) :
     ~Overridden(edges, i) /\ ~Satisfied(edges[i], outcome[edges[i].up])}

\* The execution may turn to a job: nothing runs, and all upstream has a result.
Due(e, j) ==
  /\ current[e] = {} /\ results[e][j] = "none"
  /\ \A u \in Upstream(plan[e], j) : results[e][u] # "none"

Adopt(e) ==
  /\ DOMAIN plan[e] = {}
  /\ \E edges \in {plan'[e]} :
       /\ DOMAIN edges # {} /\ ~Cyclic(edges)
       /\ plan' = [plan EXCEPT ![e] = edges]
  /\ UNCHANGED <<results, current>>

Skip(e, j) ==
  /\ Due(e, j) /\ Refusing(plan[e], results[e], j) # {}
  /\ results' = [results EXCEPT ![e][j] = "pending"]
  /\ UNCHANGED <<plan, current>>

Run(e, j) ==
  /\ Due(e, j) /\ Refusing(plan[e], results[e], j) = {}
  /\ current' = [current EXCEPT ![e] = {j}]
  /\ UNCHANGED <<plan, results>>

\* A job that cannot even be run counts as failed.
Fail(e, j) ==
  /\ Due(e, j) /\ Refusing(plan[e], results[e], j) = {}
  /\ results' = [results EXCEPT ![e][j] = "failed"]
  /\ UNCHANGED <<plan, current>>

Return(e, j, s) ==
  /\ j \in current[e]
  /\ results' = [results EXCEPT ![e][j] = s]
  /\ current' = [current EXCEPT ![e] = {}]
  /\ UNCHANGED plan

Next ==
  \E e \in Exec :
    \/ Adopt(e)
    \/ \E j \in Nodes(plan[e]) :
         Skip(e, j) \/ Run(e, j) \/ Fail(e, j) \/ \E s \in Ran : Return(e, j, s)

Spec == Init /\ [][Next]_walkVars
================================================================================
