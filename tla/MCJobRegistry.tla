----------------------------- MODULE MCJobRegistry -----------------------------
(***************************************************************************)
(* JobRegistry for TLC.  Request slots are interchangeable.                *)
(***************************************************************************)
EXTENDS JobRegistry, TLC

RequestSymmetry == Permutations(Request)
================================================================================
