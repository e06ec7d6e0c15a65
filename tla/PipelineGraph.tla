----------------------------- MODULE PipelineGraph -----------------------------
(***************************************************************************)
(* The graph of a pipeline: its edges by their numbers, a list of edges or *)
(* rows by their ids.  Of parallel edges, the last is the one that counts. *)
(* Reference definitions, independent of how the code computes them.       *)
(***************************************************************************)
EXTENDS Naturals, Sequences, FiniteSets

CONSTANT Job

Condition == {"success", "failure", "always"}

\* EdgeCreate refuses an edge from a job to itself.
Edge == {e \in [up : Job, down : Job, cond : Condition] : e.up # e.down}

Nodes(edges) ==
  {edges[i].up : i \in DOMAIN edges} \cup {edges[i].down : i \in DOMAIN edges}

\* The edges from one job to another; a pipeline may list several.
EdgesBetween(edges, u, d) == {i \in DOMAIN edges : edges[i].up = u /\ edges[i].down = d}

EdgesInto(edges, d) == {i \in DOMAIN edges : edges[i].down = d}

Upstream(edges, d) == {edges[i].up : i \in EdgesInto(edges, d)}

\* Some jobs wait for each other: each has an upstream among them.
Cyclic(edges) ==
  \E S \in SUBSET Nodes(edges) :
    S # {} /\ \A d \in S : \E i \in EdgesInto(edges, d) : edges[i].up \in S

\* Every job of the pipeline once, each after everything upstream of it.
IsTopological(order, edges) ==
  /\ \A d \in Nodes(edges) : \E k \in DOMAIN order : order[k] = d
  /\ \A k, l \in DOMAIN order : order[k] = order[l] => k = l
  /\ \A k \in DOMAIN order :
       /\ order[k] \in Nodes(edges)
       /\ \A i \in EdgesInto(edges, order[k]) :
            \E l \in DOMAIN order : l < k /\ order[l] = edges[i].up

TopologicalOrders(edges) ==
  {order \in [1 .. Cardinality(Nodes(edges)) -> Nodes(edges)] : IsTopological(order, edges)}
================================================================================
