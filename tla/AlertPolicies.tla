----------------------------- MODULE AlertPolicies -----------------------------
(***************************************************************************)
(* The alert_policies table behind routers/alerts.py, and which policies   *)
(* a finished run has to notify (services/notifier.py).                    *)
(***************************************************************************)
EXTENDS TableRows

CONSTANTS
  Jobs,
  Limits,     \* values of sla_max_duration_seconds
  Complete,   \* the bodies of create requests
  Partial,    \* the bodies of update requests: some of the fields
  Existing,   \* what the table may hold when the process starts
  Clients     \* slots for concurrent requests

VARIABLES
  jobs,      \* the jobs table, of which the 404 check reads the status
  policies,  \* the rows of the table
  numbered,  \* the largest id ever given to a row
  calls      \* per request slot: what it has read and will commit

--------------------------------------------------------------------------------
policyVars == <<policies, numbered, calls>>

Trigger == {"on_failure", "on_success", "on_timeout", "on_sla_breach"}
Body    == [trigger : Trigger, limit : Limits \cup {None}, active : BOOLEAN]
Fields  == {"trigger", "limit", "active"}
Policy  == [id : Nat \ {0}, job : Jobs, is : Body]

ASSUME PoliciesAssumption ==
  /\ Limits \subseteq Nat /\ None \notin Nat
  /\ Complete \subseteq Body
  /\ \A b \in Partial : \E c \in Body, fs \in SUBSET Fields : b = [f \in fs |-> c[f]]
  /\ \A rows \in Existing : rows \subseteq Policy /\ IsFiniteSet(rows)
                               /\ \A p, q \in rows : p.id = q.id => p = q

NoCall == [op |-> "idle", id |-> 0, job |-> None, body |-> << >>]

PoliciesInit ==
  /\ sqlite \in BOOLEAN
  /\ policies \in Existing /\ numbered = Max({0} \cup Ids(policies))
  /\ calls = [c \in Clients |-> NoCall]

\* _get_job_or_404
Found(j) == jobs[j].status # "deleted"

--------------------------------------------------------------------------------
Prepare(c, op, id, j, body) ==
  /\ calls[c] = NoCall
  /\ Found(j)
  /\ calls' = [calls EXCEPT ![c] = [op |-> op, id |-> id, job |-> j, body |-> body]]
  /\ UNCHANGED <<sqlite, policies, numbered>>

CreatePolicy(c, j, b) == Prepare(c, "create", 0, j, b)

\* The unit of work writes the columns that differ from what was loaded.  The
\* policy of another job is a 404.
ChangePolicy(c, p, b) ==
  Prepare(c, "update", p.id, p.job,
          [f \in {g \in DOMAIN b : b[g] # p.is[g]} |-> b[f]])

DeletePolicy(c, p) == Prepare(c, "delete", p.id, p.job, << >>)

\* What a commit leaves of the rows: it finds them by id.  An UPDATE of a row that
\* is gone is a StaleDataError, a DELETE of it only a warning.
Committed(call) ==
  CASE call.op = "create" ->
         policies \cup {[id |-> NewId(policies, numbered),
                         job |-> call.job, is |-> call.body]}
    [] call.op = "update" ->
         {IF p.id = call.id
            THEN [p EXCEPT !.is = [f \in Fields |->
                    IF f \in DOMAIN call.body THEN call.body[f] ELSE p.is[f]]]
            ELSE p : p \in policies}
    [] call.op = "delete" -> {p \in policies : p.id # call.id}

CommitCall(c) ==
  /\ calls[c] # NoCall
  /\ policies' = Committed(calls[c])
  /\ numbered' = Max({numbered} \cup Ids(policies'))
  /\ calls' = [calls EXCEPT ![c] = NoCall]
  /\ UNCHANGED sqlite

PoliciesRestart ==
  /\ calls' = [c \in Clients |-> NoCall]
  /\ UNCHANGED <<sqlite, policies, numbered>>

ReceiveCall(c) ==
  \/ \E j \in Jobs, b \in Complete : CreatePolicy(c, j, b)
  \/ \E p \in policies : DeletePolicy(c, p) \/ \E b \in Partial : ChangePolicy(c, p, b)

--------------------------------------------------------------------------------
\* check_and_alert: the policies that a run with this status and duration notifies.
Matches(p, status, duration) ==
  \/ p.is.trigger = "on_failure" /\ status = "failed"
  \/ p.is.trigger = "on_success" /\ status = "success"
  \/ p.is.trigger = "on_timeout" /\ status = "timeout"
  \/ p.is.trigger = "on_sla_breach" /\ p.is.limit # None /\ duration > p.is.limit

Due(p, status, duration) == p.is.active /\ Matches(p, status, duration)

PoliciesOf(j) == {p \in policies : p.job = j}

PoliciesTypeOK ==
  /\ policies \subseteq Policy
  /\ numbered \in Nat /\ \A p \in policies : p.id <= numbered
  /\ \A c \in Clients : calls[c] # NoCall =>
       /\ calls[c].op \in {"create", "update", "delete"}
       /\ calls[c].id \in 0..numbered /\ calls[c].job \in Jobs
================================================================================
