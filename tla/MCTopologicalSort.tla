--------------------------- MODULE MCTopologicalSort ---------------------------
(***************************************************************************)
(* TopologicalSort for TLC: every list of up to MaxEdges edges.  The        *)
(* condition of an edge plays no part in the sort, so one is enough.       *)
(***************************************************************************)
EXTENDS TopologicalSort

CONSTANT MaxEdges

MCEdgeLists ==
  UNION {[1 .. n -> {e \in Edge : e.cond = "success"}] : n \in 0 .. MaxEdges}
================================================================================
