------------------------------ MODULE MCRunEngine ------------------------------
(***************************************************************************)
(* RunEngine for TLC, and the properties its runs check.                   *)
(***************************************************************************)
EXTENDS RunEngineProps, TLC

\* Tasks are interchangeable: none is named by the specification.
TaskSymmetry == Permutations(Task)
================================================================================
