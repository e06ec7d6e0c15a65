------------------------------ MODULE MCAnalytics ------------------------------
(***************************************************************************)
(* Analytics for TLC: a threshold of 5/4, which a spike passes when it is  *)
(* the third run.                                                          *)
(***************************************************************************)
EXTENDS Analytics, TLC

MCThreshold == <<5, 4>>
MCSymmetry  == Permutations(Job)
================================================================================
