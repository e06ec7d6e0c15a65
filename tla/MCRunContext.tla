------------------------------ MODULE MCRunContext ------------------------------
(***************************************************************************)
(* RunContext for TLC: a name in capitals and one that is not, a job whose *)
(* environment refers to it, and policies of three kinds.                  *)
(***************************************************************************)
EXTENDS RunContext, TLC

CONSTANTS v1, v2, k1, k2, j1

MCNames == {"TOKEN", "token", "OTHER"}
MCUpper == [n \in MCNames |-> IF n = "OTHER" THEN "OTHER" ELSE "TOKEN"]

MCStored == {{[id |-> 1, name |-> "TOKEN", cipher |-> [key |-> k1, value |-> v1]]}}

Env(a, b) == [A |-> a, B |-> b]
Job(status, env) == [status |-> status, webhook |-> TRUE, env |-> env]
MCJobRows ==
  {Job("active", Env(Secret("OTHER"), Secret("TOKEN"))),
   Job("active", Env(Plain(v1), Secret("token"))),
   Job("paused", Env(Plain(v1), Secret("TOKEN")))}
MCParams == {[A |-> Plain(v2)]}

MCComplete == {[trigger |-> "on_sla_breach", limit |-> 1, active |-> TRUE]}
MCExisting == {{[id |-> 1, job |-> j1,
                 is |-> [trigger |-> "on_failure", limit |-> None, active |-> TRUE]]}}
MCPartial == {[active |-> FALSE], [trigger |-> "on_success", limit |-> 1]}

MCSymmetry == Permutations(Requests)
================================================================================
