------------------------------- MODULE RunContext -------------------------------
(***************************************************************************)
(* What surrounds the execution of a run: the environment it is given, out *)
(* of the job's row, the secrets and the parameters of a webhook, and the  *)
(* alerts it sends when it is over.  The secrets and policies endpoints    *)
(* are at work all the while.                                              *)
(*                                                                         *)
(* Scheduling, permits and the history row are RunEngine's.                *)
(***************************************************************************)
EXTENDS SecretVault, AlertPolicies, Sequences

CONSTANTS
  Durations,  \* how long a run may take
  JobRows,    \* the contents a row of the jobs table may have
  Params,     \* the bodies of webhook requests: texts for some variables
  Runs,       \* slots for concurrent runs
  MaxRuns,    \* bound: runs over a behaviour
  MaxCalls    \* bound: requests and restarts over a behaviour

VARIABLES
  runs,       \* per slot: the local variables of _run_job_inner
  started, called

vars == <<sqlite, jobs, called, vaultVars, policyVars, runs, started>>

--------------------------------------------------------------------------------
\* The text of an environment variable: plain, or a placeholder for a secret.
Plain(v)  == [kind |-> "plain", of |-> v]
Secret(n) == [kind |-> "secret", of |-> n]
Texts == [kind : {"plain"}, of : Values] \cup [kind : {"secret"}, of : Names]

IsEnv(e) == \A x \in DOMAIN e : e[x] \in Texts

ASSUME ContextAssumption ==
  /\ \A row \in JobRows : /\ row.status \in {"active", "paused", "deleted"}
                          /\ row.webhook \in BOOLEAN
                          /\ IsEnv(row.env)
  /\ \A ps \in Params : IsEnv(ps)
  /\ Durations \subseteq Nat /\ MaxRuns \in Nat /\ MaxCalls \in Nat

Status == {"success", "failed", "timeout", "running"}

NoEnv == [x \in {} |-> None]

NoRun ==
  [stage |-> "idle", job |-> None, merged |-> NoEnv, env |-> NoEnv,
   loaded |-> {},    \* job.alert_policies
   standing |-> {},  \* history: those of them that are unchanged in the table
   status |-> "running", duration |-> 0,
   todo |-> {},      \* the policies check_and_alert has still to look at
   sent |-> << >>]   \* the policies notified

Init ==
  /\ VaultInit /\ PoliciesInit
  /\ jobs \in [Jobs -> {row \in JobRows : row.status = "active"}]
  /\ runs = [r \in Runs |-> NoRun]
  /\ started = 0 /\ called = 0

--------------------------------------------------------------------------------
\* {**env_vars, **runtime_params}
Merge(env, ps) ==
  [x \in DOMAIN env \cup DOMAIN ps |-> IF x \in DOMAIN ps THEN ps[x] ELSE env[x]]

References(env) == {env[x].of : x \in {y \in DOMAIN env : env[y].kind = "secret"}}

\* Every placeholder replaced by what value[name] is.
Substitute(env, value) ==
  [x \in DOMAIN env |->
     IF env[x].kind = "secret" THEN Plain(value[env[x].of]) ELSE env[x]]

Begin(r, j, stage, ps) ==
  /\ runs[r].stage = "idle" /\ started < MaxRuns
  /\ runs' = [runs EXCEPT ![r] = [NoRun EXCEPT !.stage = stage, !.job = j, !.merged = ps]]
  /\ started' = started + 1
  /\ UNCHANGED <<sqlite, jobs, called, vaultVars, policyVars>>

\* A schedule, a client or a pipeline starts the job.
Fire(r) == \E j \in Jobs : jobs[j].status = "active" /\ Begin(r, j, "load", NoEnv)

\* webhook_trigger: the task is created and the answer is 202.
Webhook(r) ==
  \E j \in Jobs, ps \in Params :
    /\ jobs[j].webhook /\ jobs[j].status # "deleted"
    /\ Begin(r, j, "merge", ps)

Go(r, run) ==
  /\ runs' = [runs EXCEPT ![r] = run]
  /\ UNCHANGED <<sqlite, jobs, called, started, vaultVars, policyVars>>

\* _trigger_with_params merges the parameters into a copy of the row that is
\* detached and never committed.
MergeParams(r) ==
  /\ runs[r].stage = "merge"
  /\ Go(r, [runs[r] EXCEPT !.stage = "load",
                           !.merged = Merge(jobs[runs[r].job].env, runs[r].merged)])

\* The job comes with its policies; both are read here for the whole run.  What a
\* webhook merged is lost: _run_job_inner reads the row in a session of its own, so
\* that webhooks.py:50 and :104 and README.md:197 do not hold.
Load(r) ==
  LET row == jobs[runs[r].job]
      own == PoliciesOf(runs[r].job)
  IN  /\ runs[r].stage = "load"
      /\ IF row.status = "active"
           THEN Go(r, [runs[r] EXCEPT !.stage = "resolve", !.env = row.env, !.merged = NoEnv,
                                      !.loaded = own, !.standing = own])
           ELSE Go(r, NoRun)

\* Mutant of Resolve: what can be resolved is, the other placeholders are left.
ResolveSome(r) ==
  LET env  == runs[r].env
      good == {s \in secrets : s.name \in References(env) /\ Readable(s)}
      value(n) == (CHOOSE s \in good : s.name = n).cipher.value
  IN  /\ runs[r].stage = "resolve"
      /\ Go(r, [runs[r] EXCEPT !.stage = "execute",
           !.env = [x \in DOMAIN env |->
              IF env[x].kind = "secret" /\ \E s \in good : s.name = env[x].of
                THEN Plain(value(env[x].of)) ELSE env[x]]])

\* resolve_secrets, in one query.  Of two rows with one name the one the query
\* returns last is used.  If a name has no row or a value cannot be decrypted, the
\* exception is logged and the job runs with the environment as it is.
Resolve(r) ==
  LET env  == runs[r].env
      refs == References(env)
      rows == {s \in secrets : s.name \in refs}
      Pick == {c \in [refs -> rows] : \A n \in refs : c[n].name = n}
  IN  /\ runs[r].stage = "resolve"
      /\ \/ \E c \in Pick :
              /\ \A n \in refs : Readable(c[n])
              /\ Go(r, [runs[r] EXCEPT !.stage = "execute",
                   !.env = Substitute(env, [n \in refs |-> c[n].cipher.value])])
         \/ /\ Pick = {} \/ \E c \in Pick, n \in refs : ~ Readable(c[n])
            /\ Go(r, [runs[r] EXCEPT !.stage = "execute"])

\* "running" is a run that a shutdown has cancelled: its finally block goes on.
Execute(r) ==
  \E s \in Status, d \in Durations :
    /\ runs[r].stage = "execute"
    /\ Go(r, [runs[r] EXCEPT !.stage = "report", !.status = s, !.duration = d,
                             !.env = NoEnv, !.todo = runs[r].loaded])

\* An exception where nothing catches it: a statement, or the cleanup.
Break(r) ==
  /\ runs[r].stage \in {"merge", "load", "resolve", "execute"}
  /\ Go(r, NoRun)

\* started_at was refreshed from the table, without a time zone if that is SQLite;
\* finished_at has one.  Their difference is a TypeError, which is logged.
TimesDiffer == sqlite

\* Mutant of Consider: the loop stops at the first match.
ConsiderFirst(r) ==
  \E p \in runs[r].todo :
    /\ runs[r].stage = "report" /\ ~TimesDiffer
    /\ Go(r, IF Due(p, runs[r].status, runs[r].duration)
               THEN [runs[r] EXCEPT !.todo = {}, !.sent = Append(@, p)]
               ELSE [runs[r] EXCEPT !.todo = @ \ {p}])

\* Mutant of Consider: a policy that was notified is looked at again.
ConsiderAgain(r) ==
  \E p \in runs[r].todo :
    /\ runs[r].stage = "report" /\ ~TimesDiffer
    /\ Go(r, IF Due(p, runs[r].status, runs[r].duration)
               THEN [runs[r] EXCEPT !.sent = Append(@, p)]
               ELSE [runs[r] EXCEPT !.todo = @ \ {p}])

\* One policy of check_and_alert; dispatch_alert ends however the channel answers.
Consider(r) ==
  \E p \in runs[r].todo :
    /\ runs[r].stage = "report" /\ ~TimesDiffer
    /\ Go(r, [runs[r] EXCEPT !.todo = @ \ {p},
         !.sent = IF Due(p, runs[r].status, runs[r].duration)
                    THEN Append(@, p) ELSE @])

Reported(r) ==
  /\ runs[r].stage = "report"
  /\ runs[r].todo = {} \/ TimesDiffer
  /\ Go(r, NoRun)

Step(r) ==
  \/ MergeParams(r) \/ Load(r) \/ Resolve(r) \/ Execute(r) \/ Break(r)
  \/ Consider(r) \/ Reported(r)

--------------------------------------------------------------------------------
\* History: a policy that changed no longer stands, even if it is changed back.
Observe == runs' = [r \in Runs |-> [runs[r] EXCEPT !.standing = @ \cap policies']]

Secrets ==
  /\ \E q \in Requests :
       \/ ReceiveSecret(q) /\ called < MaxCalls /\ called' = called + 1
       \/ SettleSecret(q) /\ UNCHANGED called
  /\ UNCHANGED <<jobs, policyVars, runs, started>>

Policies ==
  /\ \E c \in Clients :
       \/ ReceiveCall(c) /\ called < MaxCalls /\ called' = called + 1
       \/ CommitCall(c) /\ UNCHANGED called
  /\ Observe
  /\ UNCHANGED <<jobs, started, vaultVars>>

\* update_job and delete_job, whose own races are JobRegistry's.
EditJob ==
  /\ called < MaxCalls /\ called' = called + 1
  /\ \E j \in Jobs, row \in JobRows :
       /\ jobs[j].status # "deleted" /\ row.webhook = jobs[j].webhook
       /\ jobs' = [jobs EXCEPT ![j] = row]
  /\ UNCHANGED <<sqlite, vaultVars, policyVars, runs, started>>

\* A new process: requests and runs are gone, and the key may be another one.
Restart ==
  /\ called < MaxCalls /\ called' = called + 1
  /\ VaultRestart /\ PoliciesRestart
  /\ runs' = [r \in Runs |-> NoRun]
  /\ UNCHANGED <<jobs, started>>

Next ==
  \/ \E r \in Runs : Fire(r) \/ Webhook(r) \/ Step(r)
  \/ Secrets \/ Policies \/ EditJob \/ Restart

Spec == Init /\ [][Next]_vars

--------------------------------------------------------------------------------
TypeOK ==
  /\ VaultTypeOK /\ PoliciesTypeOK
  /\ jobs \in [Jobs -> JobRows]
  /\ \A r \in Runs :
       /\ runs[r].stage \in {"idle", "merge", "load", "resolve", "execute", "report"}
       /\ IsEnv(runs[r].env) /\ IsEnv(runs[r].merged)
       /\ runs[r].todo \subseteq runs[r].loaded
       /\ runs[r].standing \subseteq runs[r].loaded
       /\ Len(runs[r].sent) + Cardinality(runs[r].todo) <= Cardinality(runs[r].loaded)
  /\ started \in 0..MaxRuns /\ called \in 0..MaxCalls

\* secret_resolver.py:70-108: no run is given a part of its secrets, or an old one.
\* If a placeholder of its environment is replaced, every one is; and unless requests
\* for one of these secrets overlapped, each is replaced by the value that the last
\* successful request left, and all of them are if the key can read them all.
\* Nothing is promised to a run whose secrets cannot be read: README.md:68 announces
\* an error before it is executed, and scheduler.py:154-159 logs one and executes it
\* with the placeholders as they are.  Nor is it said that the environment is what
\* the run should have: the parameters of a webhook are never in it (see Load).
SecretsWhole ==
  [][\A r \in Runs :
       LET env   == runs[r].env
           given == runs'[r].env
           refs  == References(env)
           known == \A n \in refs : latest[n] # None /\ latest[n].key = key
       IN  runs[r].stage = "resolve" /\ runs'[r].stage = "execute" =>
             /\ given # env => References(given) = {}
             /\ refs \cap raced = {} =>
                  /\ known => given = Substitute(env, [n \in refs |-> latest[n].value])
                  /\ given # env => known]_vars

\* notifier.py:115-154: when a run has gone through its policies, none has been
\* notified twice, and those that stand as they stood when the run began have been
\* notified exactly if they are active and match how it ended.
AlertsExact ==
  \A r \in Runs :
    runs[r].stage = "report" /\ runs[r].todo = {} =>
      LET times(p) == Cardinality({i \in DOMAIN runs[r].sent : runs[r].sent[i] = p})
          due(p)   == Due(p, runs[r].status, runs[r].duration)
      IN  /\ \A p \in runs[r].loaded : times(p) <= 1
          /\ \A p \in runs[r].standing : times(p) = 1 <=> due(p)
================================================================================
