---------------------------- MODULE TopologicalSort ----------------------------
(***************************************************************************)
(* build_graph and topological_sort of services/pipeline_runner.py: Kahn's  *)
(* algorithm, one action per iteration of its while loop.                  *)
(***************************************************************************)
EXTENDS PipelineGraph, Integers

CONSTANT EdgeLists      \* the inputs: lists of edges
ASSUME InputAssumption == EdgeLists \subseteq Seq(Edge)

VARIABLES
  edges,     \* the argument
  inDegree,  \* the in_degree map of build_graph
  queue,     \* the deque
  order,     \* sorted_order
  result     \* "running", then "sorted", or "cycle" for the ValueError

vars == <<edges, inDegree, queue, order, result>>

--------------------------------------------------------------------------------
\* The ways to list a set, each element once.
Listings(S) ==
  {q \in [1 .. Cardinality(S) -> S] :
     /\ \A x \in S : \E k \in DOMAIN q : q[k] = x
     /\ \A k, l \in DOMAIN q : q[k] = q[l] => k = l}

Roots(es) == {n \in Nodes(es) : EdgesInto(es, n) = {}}

\* Mutant of Degree: parallel edges are counted once, as a set of upstream jobs.
DegreeOfSet(es, d) == Cardinality(Upstream(es, d))

\* in_degree: parallel edges count one each.
Degree(es, d) == Cardinality(EdgesInto(es, d))

\* The queue starts with the roots in the order Python iterates over a set: any.
Init ==
  /\ edges \in EdgeLists
  /\ inDegree = [n \in Nodes(edges) |-> Degree(edges, n)]
  /\ queue \in Listings(Roots(edges))
  /\ order = << >>
  /\ result = "running"

\* Mutant of Freed: a job is queued when it is seen first, a breadth-first search.
FreedOnSight(n) ==
  {d \in Nodes(edges) : /\ EdgesBetween(edges, n, d) # {}
                        /\ \A k \in DOMAIN order : order[k] # d
                        /\ \A k \in DOMAIN queue : queue[k] # d}

\* The jobs whose in-degree an iteration for n brings to zero, in the order of
\* the last of their edges from n.
Freed(n) ==
  {d \in Nodes(edges) : /\ EdgesBetween(edges, n, d) # {}
                        /\ inDegree[d] = Cardinality(EdgesBetween(edges, n, d))}

FreedLists(n) ==
  {q \in Listings(Freed(n)) :
     \A k, l \in DOMAIN q : k < l =>
       \E i \in EdgesBetween(edges, n, q[l]) :
         \A m \in EdgesBetween(edges, n, q[k]) : m < i}

Visit ==
  /\ result = "running"
  /\ queue # << >>
  /\ LET n == Head(queue)
     IN  /\ order' = Append(order, n)
         /\ inDegree' = [d \in DOMAIN inDegree |->
                           inDegree[d] - Cardinality(EdgesBetween(edges, n, d))]
         /\ \E q \in FreedLists(n) : queue' = Tail(queue) \o q
  /\ UNCHANGED <<edges, result>>

\* Mutant of Finish: the loop is left only with a complete order.
FinishComplete ==
  /\ result = "running"
  /\ queue = << >>
  /\ Len(order) = Cardinality(Nodes(edges))
  /\ result' = "sorted"
  /\ UNCHANGED <<edges, inDegree, queue, order>>

\* Mutant of Finish: the length is not compared.
FinishUnchecked ==
  /\ result = "running"
  /\ queue = << >>
  /\ result' = "sorted"
  /\ UNCHANGED <<edges, inDegree, queue, order>>

Finish ==
  /\ result = "running"
  /\ queue = << >>
  /\ result' = IF Len(order) = Cardinality(Nodes(edges)) THEN "sorted" ELSE "cycle"
  /\ UNCHANGED <<edges, inDegree, queue, order>>

Next == Visit \/ Finish

Spec == Init /\ [][Next]_vars /\ WF_vars(Next)

--------------------------------------------------------------------------------
TypeOK ==
  /\ edges \in Seq(Edge)
  /\ inDegree \in [Nodes(edges) -> Nat]
  /\ queue \in Seq(Nodes(edges))
  /\ order \in Seq(Nodes(edges))
  /\ result \in {"running", "sorted", "cycle"}

\* A returned order lists every job once, each after everything it depends on.
SortedIsTopological == result = "sorted" => IsTopological(order, edges)

\* The ValueError is raised for cyclic pipelines and for no others, with parallel
\* edges counted once each on both sides of the subtraction.
ErrorIsCycle ==
  /\ result = "cycle" => Cyclic(edges)
  /\ result = "sorted" => ~Cyclic(edges)

\* The while loop ends.
Terminates == <>(result # "running")
================================================================================
