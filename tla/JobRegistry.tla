------------------------------ MODULE JobRegistry ------------------------------
(***************************************************************************)
(* The jobs router (create, update, delete, a new webhook token) against   *)
(* the two stores it keeps in step: the jobs table and the in-memory job   *)
(* store of APScheduler.                                                   *)
(*                                                                         *)
(* A request is a coroutine with its own session.  It suspends at each     *)
(* database call and nowhere else, so it is three steps: the row it loads, *)
(* the synchronous stretch that edits its copy and calls the scheduler,    *)
(* and the commit, which writes only the columns whose value differs from  *)
(* the one that was loaded.                                                *)
(***************************************************************************)
EXTENDS Naturals, FiniteSetsExt

CONSTANTS
  Job,          \* job ids; an id has no row until a create request inserts it
  Request,      \* slots for concurrent requests
  GoodTrigger,  \* trigger configurations APScheduler accepts
  OneShot,      \* those of them that fire once (date)
  BadTrigger,   \* ones _validate_trigger accepts and APScheduler rejects
  None,
  MaxRequests,  \* bound: requests over a behaviour
  MaxCrashes    \* bound: restarts of the process

ASSUME TriggerAssumption ==
  /\ GoodTrigger \cap BadTrigger = {}
  /\ OneShot \subseteq GoodTrigger
  /\ None \notin GoodTrigger \cup BadTrigger
ASSUME CountAssumption == MaxRequests \in Nat /\ MaxCrashes \in Nat
ASSUME JobAssumption   == None \notin Job

VARIABLES
  row,        \* the jobs table
  entry,      \* per job: the trigger of APScheduler's job_<id>, or None
  req,        \* the requests in flight
  requests, crashes,
  overlapped, \* jobs that had two requests for their schedule at once since the start
  unscheduled, \* jobs whose last scheduling raised, or whose last fire is over
  torn,       \* history: jobs whose schedule was changed and the commit of it failed
  told        \* history: per job, the webhook token of the last committed create or
              \* regenerate request, which its answer tells the client

vars == <<row, entry, req, requests, crashes, overlapped, unscheduled, torn, told>>

--------------------------------------------------------------------------------
Trigger == GoodTrigger \cup BadTrigger
Status  == {"active", "paused", "deleted"}

\* The columns of a job that matter to scheduling, and its webhook token; sid is
\* whether scheduler_job_id is set.
Columns == [status : Status, sid : BOOLEAN, trigger : Trigger, token : Nat \ {0}]

NoRow == [status |-> "absent", sid |-> FALSE, trigger |-> None, token |-> 0]

\* A request: its body, the row it loaded, and its edited copy of that row.
Body ==
  [op : {"create"}, status : {None}, trigger : Trigger]
  \cup [op : {"update"}, status : Status \cup {None}, trigger : Trigger \cup {None}]
  \cup [op : {"delete", "regenerate"}, status : {None}, trigger : {None}]

Idle == [stage |-> "idle", job |-> None, body |-> None, old |-> NoRow, new |-> NoRow]

InFlight == {r \in Request : req[r].stage # "idle"}

Init ==
  /\ row   = [j \in Job |-> NoRow]
  /\ entry = [j \in Job |-> None]
  /\ req   = [r \in Request |-> Idle]
  /\ requests = 0 /\ crashes = 0
  /\ overlapped = {} /\ unscheduled = {} /\ torn = {}
  /\ told = [j \in Job |-> 0]

--------------------------------------------------------------------------------
\* A new token writes a column of its own.
Overlaps(j, b) ==
  /\ b.op # "regenerate"
  /\ \E q \in InFlight : req[q].job = j /\ req[q].body.op # "regenerate"

\* A request arrives.  The job id of a create is the row it is about to insert.
Begin(r, j, b) ==
  /\ req[r] = Idle
  /\ requests < MaxRequests
  /\ b.op = "create" => row[j] = NoRow /\ \A q \in InFlight : req[q].job # j
  /\ b.op # "create" => row[j] # NoRow
  /\ req' = [req EXCEPT ![r] = [Idle EXCEPT !.stage = "load", !.job = j, !.body = b]]
  /\ requests' = requests + 1
  /\ overlapped' = IF Overlaps(j, b) THEN overlapped \cup {j} ELSE overlapped
  /\ UNCHANGED <<row, entry, crashes, unscheduled, torn, told>>

End(r) == req' = [req EXCEPT ![r] = Idle]

\* token_urlsafe: one that no row and no request has.
FreshToken ==
  1 + Max({0} \cup {row[j].token : j \in Job} \cup {req[r].old.token : r \in Request}
              \cup {req[r].new.token : r \in Request})

\* create_job commits the new row, active and without a scheduler id; the refresh
\* that follows is a load like any other.
Insert(r) ==
  LET q == req[r]
  IN  /\ q.stage = "load" /\ row[q.job] = NoRow
      /\ row' = [row EXCEPT ![q.job] =
                   [status |-> "active", sid |-> FALSE, trigger |-> q.body.trigger,
                    token |-> FreshToken]]
      /\ told' = [told EXCEPT ![q.job] = FreshToken]
      /\ UNCHANGED <<entry, req, requests, crashes, overlapped, unscheduled, torn>>

\* Mutant of Refused: a deleted job can be updated.
RefusedNever(q) == FALSE

\* delete_job accepts a deleted job, and create_job does not look at the status of
\* the row it reads back: it schedules a job that was deleted since the insert.
Refused(q) == q.body.op \notin {"delete", "create"} /\ row[q.job].status = "deleted"

Load(r) ==
  LET q == req[r]
  IN  /\ q.stage = "load" /\ row[q.job] # NoRow
      /\ IF Refused(q) THEN End(r)
         ELSE req' = [req EXCEPT ![r].stage = "apply",
                                 ![r].old = row[q.job], ![r].new = row[q.job]]
      /\ UNCHANGED <<row, entry, requests, crashes, overlapped, unscheduled, torn, told>>

\* Mutant of Removed: the old entry is left to replace_existing.
RemovedNever(q) == entry[q.job]

\* scheduler.remove_job, when the copy has a scheduler id.
Removed(q) == IF q.old.sid THEN None ELSE entry[q.job]

Edited(q) ==
  [q.old EXCEPT !.status  = IF q.body.status # None THEN q.body.status ELSE @,
                !.trigger = IF q.body.trigger # None THEN q.body.trigger ELSE @]

Keep(r, new) == req' = [req EXCEPT ![r].stage = "commit", ![r].new = new]

\* Mutant of Reschedule: the trigger is stored without a check.
RescheduleBlind(r, new, removed) ==
  LET j == req[r].job
  IN  /\ entry' = [entry EXCEPT ![j] = IF new.status = "active" THEN new.trigger ELSE removed]
      /\ Keep(r, [new EXCEPT !.sid = new.status = "active" \/ @])
      /\ UNCHANGED unscheduled

\* Mutant of Reschedule: the id is not written back.
RescheduleIdless(r, new, removed) ==
  LET j == req[r].job
  IN  /\ entry' = [entry EXCEPT ![j] = IF new.status = "active" /\ new.trigger \in GoodTrigger
                                        THEN new.trigger ELSE removed]
      /\ Keep(r, new)
      /\ UNCHANGED unscheduled

\* scheduler.schedule_job on the edited copy, after the removal - create_job always,
\* update_job if it is active: add_job with replace_existing, or an exception and
\* the request ends with 422, the row uncommitted and the removal done.
Reschedule(r, new, removed) ==
  LET j == req[r].job
      wanted == new.status = "active" \/ req[r].body.op = "create"
  IN  \/ /\ wanted /\ new.trigger \in GoodTrigger
         /\ entry' = [entry EXCEPT ![j] = new.trigger]
         /\ Keep(r, [new EXCEPT !.sid = TRUE])
         /\ unscheduled' = unscheduled \ {j}
      \/ /\ wanted /\ new.trigger \in BadTrigger
         /\ entry' = [entry EXCEPT ![j] = removed]
         /\ End(r)
         /\ unscheduled' = unscheduled \cup {j}
      \/ /\ ~wanted
         /\ entry' = [entry EXCEPT ![j] = removed]
         /\ Keep(r, new)
         /\ UNCHANGED unscheduled

\* The synchronous stretch of create_job and update_job.
Apply(r) ==
  LET q == req[r]
  IN  /\ q.stage = "apply" /\ q.body.op \in {"create", "update"}
      /\ IF q.body.op = "create" THEN Reschedule(r, q.old, entry[q.job])
                                 ELSE Reschedule(r, Edited(q), Removed(q))
      /\ UNCHANGED <<row, requests, crashes, overlapped, torn, told>>

\* The synchronous stretch of delete_job.
ApplyDelete(r) ==
  LET q == req[r]
  IN  /\ q.stage = "apply" /\ q.body.op = "delete"
      /\ entry' = [entry EXCEPT ![q.job] = Removed(q)]
      /\ Keep(r, [q.old EXCEPT !.status = "deleted"])
      /\ UNCHANGED <<row, requests, crashes, overlapped, unscheduled, torn, told>>

\* regenerate_webhook_token.
ApplyToken(r) ==
  /\ req[r].stage = "apply" /\ req[r].body.op = "regenerate"
  /\ Keep(r, [req[r].old EXCEPT !.token = FreshToken])
  /\ UNCHANGED <<row, entry, requests, crashes, overlapped, unscheduled, torn, told>>

\* The token that a committed request tells its client, if any.
Told(q) == [told EXCEPT ![q.job] = IF q.body.op = "regenerate" THEN q.new.token ELSE @]

\* A commit mends what a failed one has torn, if it leaves the job with its
\* scheduler id: the request has removed or replaced the entry by that id.
Mended(q) == IF q.body.op # "regenerate" /\ q.new.sid THEN torn \ {q.job} ELSE torn

\* Mutant of Commit: the whole row is written back.
CommitWhole(r) ==
  LET q == req[r]
  IN  /\ q.stage = "commit"
      /\ row' = [row EXCEPT ![q.job] = q.new]
      /\ told' = Told(q)
      /\ torn' = Mended(q)
      /\ End(r)
      /\ UNCHANGED <<entry, requests, crashes, overlapped, unscheduled>>

\* The unit of work writes the columns that differ from the loaded ones.
Commit(r) ==
  LET q == req[r]
      written == {c \in DOMAIN q.old : q.new[c] # q.old[c]}
  IN  /\ q.stage = "commit"
      /\ row' = [row EXCEPT ![q.job] =
                   [c \in DOMAIN @ |-> IF c \in written THEN q.new[c] ELSE @[c]]]
      /\ told' = Told(q)
      /\ torn' = Mended(q)
      /\ End(r)
      /\ UNCHANGED <<entry, requests, crashes, overlapped, unscheduled>>

\* A statement raises (SQLite: database is locked) and the request ends: nothing of
\* it is in the table, but what it did to the scheduler stays.  A create that fails
\* when it reads its row back leaves an active job that nobody schedules.
StatementFails(r) ==
  LET q == req[r]
  IN  /\ q.stage \in {"load", "commit"}
      /\ End(r)
      /\ torn' = IF q.stage = "commit" /\ q.body.op # "regenerate"
                 THEN torn \cup {q.job} ELSE torn
      /\ unscheduled' = IF q.stage = "load" /\ q.body.op = "create" /\ row[q.job] # NoRow
                        THEN unscheduled \cup {q.job} ELSE unscheduled
      /\ UNCHANGED <<row, entry, requests, crashes, overlapped, told>>

\* APScheduler drops an entry when it has fired for the last time.
Expire(j) ==
  /\ entry[j] \in OneShot
  /\ entry' = [entry EXCEPT ![j] = None]
  /\ unscheduled' = unscheduled \cup {j}
  /\ UNCHANGED <<row, req, requests, crashes, overlapped, torn, told>>

\* The process stops at any point and starts again: lifespan reloads the ACTIVE
\* jobs, each on its own, and commits their scheduler ids before serving; if that
\* commit raises, the process does not come up.
Restart ==
  LET reloaded == {j \in Job : row[j].status = "active" /\ row[j].trigger \in GoodTrigger}
  IN  /\ crashes < MaxCrashes
      /\ crashes' = crashes + 1
      /\ req'   = [r \in Request |-> Idle]
      /\ entry' = [j \in Job |-> IF j \in reloaded THEN row[j].trigger ELSE None]
      /\ row'   = [j \in Job |-> IF j \in reloaded THEN [row[j] EXCEPT !.sid = TRUE] ELSE row[j]]
      /\ overlapped' = {} /\ torn' = {}
      /\ unscheduled' = {j \in Job : row[j].status = "active"} \ reloaded
      /\ UNCHANGED <<requests, told>>

Handle(r) ==
  \/ Insert(r) \/ Load(r) \/ Apply(r) \/ ApplyDelete(r) \/ ApplyToken(r) \/ Commit(r)
  \/ StatementFails(r)

Next ==
  \/ \E r \in Request :
       \/ \E j \in Job, b \in Body : Begin(r, j, b)
       \/ Handle(r)
  \/ \E j \in Job : Expire(j)
  \/ Restart

Spec == Init /\ [][Next]_vars

--------------------------------------------------------------------------------
Asked == [stage : {"idle", "load", "apply", "commit"}, job : Job \cup {None},
          body : Body \cup {None}, old : Columns \cup {NoRow}, new : Columns \cup {NoRow}]

TypeOK ==
  /\ row   \in [Job -> Columns \cup {NoRow}]
  /\ entry \in [Job -> GoodTrigger \cup {None}]
  /\ req \in [Request -> Asked]
  /\ \A r \in InFlight : req[r].job \in Job /\ req[r].body \in Body
  /\ \A r \in InFlight : req[r].stage # "load" => req[r].old \in Columns /\ req[r].new \in Columns
  /\ requests \in 0 .. MaxRequests /\ crashes \in 0 .. MaxCrashes
  /\ overlapped \subseteq Job /\ unscheduled \subseteq Job /\ torn \subseteq Job
  /\ told \in [Job -> Nat]

Settled(j) == \A r \in InFlight : req[r].job = j => req[r].body.op = "regenerate"

\* When no request for a job's schedule is in flight, APScheduler holds the job exactly
\* if its row is active, with the trigger of the row (jobs.py:204-213, 246-257;
\* main.py:110-118).  The exceptions are the code's: requests that overlapped since the
\* start; a commit that failed after the schedule was changed, until a later request
\* mends it; a trigger that was refused, a last fire, or a create that failed half
\* way, after which an active job may have no entry - but never a wrong one.
StoresAgree ==
  \A j \in Job : Settled(j) /\ j \notin overlapped \cup torn =>
    /\ entry[j] # None => row[j].status = "active" /\ entry[j] = row[j].trigger
    /\ row[j].status = "active" /\ j \notin unscheduled => entry[j] # None

\* An entry is never out of reach, however requests overlap: a job that has one can be
\* found by its id in the row (jobs.py:206 and 246) - unless the commit that was to
\* write the id failed (jobs.py:207), and until one that does follows.
EntryHasId ==
  \A j \in Job : entry[j] # None /\ Settled(j) /\ j \notin torn => row[j].sid

\* A deleted job stays deleted, when its requests do not overlap.
DeleteIsFinal ==
  [][\A j \in Job : row[j].status = "deleted" /\ j \notin overlapped
       => row'[j].status = "deleted"]_vars

\* The webhook token of a job is the one a client was told last: no request that
\* holds an older copy of the row brings a token back that regenerate_webhook_token
\* replaced, however the requests overlap (jobs.py:342, "immediately invalidating the
\* old one").
TokenAsTold == \A j \in Job : row[j].token = told[j]

\* A deleted job stays deleted (tests/test_jobs_api.py, a deleted job is 404 from
\* then on).  Violated: an update that loaded the row before the delete writes its
\* own status after it.
DeleteIsFinalAlways ==
  [][\A j \in Job : row[j].status = "deleted" => row'[j].status = "deleted"]_vars
================================================================================
