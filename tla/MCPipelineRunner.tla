--------------------------- MODULE MCPipelineRunner ---------------------------
(***************************************************************************)
(* PipelineRunner for TLC, with pipelines that show each rule of the edges. *)
(***************************************************************************)
EXTENDS PipelineRunner

CONSTANTS a, b, c

OnSuccess(u, d) == [up |-> u, down |-> d, cond |-> "success"]
OnFailure(u, d) == [up |-> u, down |-> d, cond |-> "failure"]
Always(u, d)    == [up |-> u, down |-> d, cond |-> "always"]

MCJob == {a, b, c}

\* A join whose one branch may be skipped; a skipped node before an ALWAYS edge;
\* a branch on the outcome of a; two parallel edges that contradict each other.
MCEdgeLists ==
  { << OnFailure(a, b), OnSuccess(b, c), Always(a, c) >>,
    << OnSuccess(a, b), Always(b, c) >>,
    << OnSuccess(a, b), OnFailure(a, c) >>,
    << OnSuccess(a, b), OnFailure(a, b) >> }

\* Edge lists that form a cycle together, but not on their own, and none at all.
MCSent == { << OnSuccess(a, b) >>, << OnSuccess(b, a), Always(c, a) >>, << >> }

\* An execution beside a request, or beside a foreign run or a pause; requests alone.
MCBudgets ==
  { [execs |-> 1, requests |-> 1, others |-> 0],
    [execs |-> 1, requests |-> 0, others |-> 1],
    [execs |-> 0, requests |-> 3, others |-> 0] }
================================================================================
