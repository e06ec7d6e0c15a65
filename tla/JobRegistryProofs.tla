--------------------------- MODULE JobRegistryProofs ---------------------------
(***************************************************************************)
(* The jobs table and APScheduler agree, deleted jobs stay deleted and     *)
(* tokens are the ones that were told, for any jobs, requests, triggers    *)
(* and restarts.                                                           *)
(***************************************************************************)
EXTENDS JobRegistry, MaximumFacts

\* The requests that may change the schedule of a job.
PlansOf(j) == {r \in InFlight : req[r].job = j /\ req[r].body.op # "regenerate"}

\* Without an overlap there is at most one of them for a job.
Alone == \A j \in Job \ overlapped : \A q, r \in PlansOf(j) : q = r

\* Only a create request comes before its row, and it comes alone.
RowFirst ==
  \A r \in InFlight : row[req[r].job] = NoRow =>
    /\ req[r].stage = "load" /\ req[r].body.op = "create"
    /\ \A q \in InFlight : req[q].job = req[r].job => q = r

\* What is torn has a row.
TornHasRow == \A j \in torn : row[j] # NoRow

\* Two rows that are scheduled alike.
Same(c, d) == c.status = d.status /\ c.sid = d.sid /\ c.trigger = d.trigger

\* What a request has made of the row it loaded.  A scheduler id that was there then
\* is there still, and only a delete or a create request gets hold of a deleted row.
CopyShape ==
  \A r \in InFlight : req[r].stage # "load" =>
    /\ req[r].old.sid => row[req[r].job].sid
    /\ req[r].old.status = "deleted" => req[r].body.op \in {"delete", "create"}
    /\ req[r].stage = "commit" =>
         /\ req[r].old.sid => req[r].new.sid
         /\ req[r].body.op = "delete" => req[r].new.status = "deleted"
         /\ req[r].body.op = "create" => req[r].new.status = req[r].old.status
         /\ req[r].body.op = "regenerate" => Same(req[r].old, req[r].new)
         /\ req[r].new.token = req[r].old.token <=> req[r].body.op # "regenerate"

\* Without an overlap the row is still as it was loaded, but for its token.
CopyCurrent ==
  \A j \in Job \ overlapped : \A r \in PlansOf(j) :
    req[r].stage # "load" => Same(req[r].old, row[j])

\* APScheduler agrees with these columns of a job.
Agrees(j, c) ==
  /\ entry[j] # None => c.status = "active" /\ entry[j] = c.trigger /\ c.sid
  /\ c.status = "active" /\ j \notin unscheduled => entry[j] # None

\* What it agrees with while a request for the schedule of the job is under way: what
\* a failed commit has torn is mended by a request that has an id to write.
Planned(j, q) ==
  /\ q.stage = "commit" /\ (j \notin torn \/ q.new.sid) => Agrees(j, q.new)
  /\ q.stage # "commit" /\ q.body.op # "create" /\ j \notin torn => Agrees(j, row[j])
  /\ q.stage # "commit" /\ q.body.op = "create" =>
       entry[j] = None /\ row[j].status \in {"absent", "active"} /\ j \notin torn

ScheduleKept ==
  \A j \in Job \ overlapped :
    /\ PlansOf(j) = {} /\ j \notin torn => Agrees(j, row[j])
    /\ \A r \in PlansOf(j) : Planned(j, req[r])

\* The id of an entry is in the row, or about to be.
IdKept ==
  \A j \in Job \ torn : entry[j] # None =>
    row[j].sid \/ \E r \in PlansOf(j) : req[r].stage = "commit" /\ req[r].new.sid

Tokens ==
  {0} \cup {row[j].token : j \in Job} \cup {req[r].old.token : r \in Request}
      \cup {req[r].new.token : r \in Request}

\* There are only so many tokens, so that a fresh one exists.
TokensBounded == \E b \in Nat : \A t \in Tokens : t <= b

IndInv ==
  /\ TypeOK /\ Alone /\ RowFirst /\ CopyShape /\ CopyCurrent
  /\ ScheduleKept /\ IdKept /\ TornHasRow /\ TokensBounded /\ TokenAsTold

--------------------------------------------------------------------------------
USE DEF InFlight

LEMMA ColumnsFacts ==
  /\ NoRow \notin Columns
  /\ \A c \in Columns \cup {NoRow} : c.token \in Nat /\ DOMAIN c = {"status", "sid", "trigger", "token"}
  /\ Idle \in Asked /\ Idle.stage = "idle"
BY DEF Columns, NoRow, Idle, Asked

\* A fresh token is a number that no row and no request has.
LEMMA FreshFacts ==
  ASSUME TypeOK, TokensBounded
  PROVE  FreshToken \in Nat \ {0} /\ \A t \in Tokens : t \in Nat /\ t < FreshToken
<1>1. PICK b \in Nat : \A t \in Tokens : t <= b
  BY DEF TokensBounded
<1>2. Tokens \subseteq Nat /\ Tokens # {}
  BY ColumnsFacts DEF TypeOK, Tokens, Asked
<1>3. Max(Tokens) \in Tokens /\ \A t \in Tokens : t <= Max(Tokens)
  <2> HIDE DEF Tokens
  <2> QED BY <1>1, <1>2, MaxFacts
<1>4. FreshToken = 1 + Max(Tokens)
  BY Zenon DEF FreshToken, Tokens
<1>5. PICK m \in Nat : FreshToken = 1 + m /\ \A t \in Tokens : t <= m
  BY <1>2, <1>3, <1>4, Zenon
<1> QED BY <1>2, <1>5

LEMMA Initial == Init => IndInv
<1> SUFFICES ASSUME Init PROVE IndInv
  OBVIOUS
<1>1. TypeOK
  BY CountAssumption, ColumnsFacts DEF Init, TypeOK
<1>2. \A j \in Job : PlansOf(j) = {}
  BY DEF Init, PlansOf, Idle
<1>3. Alone /\ RowFirst /\ CopyShape /\ CopyCurrent
  BY <1>2 DEF Init, Alone, RowFirst, CopyShape, CopyCurrent, Idle
<1>4. ScheduleKept /\ IdKept /\ TornHasRow
  BY <1>2 DEF Init, ScheduleKept, IdKept, TornHasRow, Agrees, NoRow
<1>5. Tokens = {0}
  BY DEF Init, Tokens, NoRow, Idle
<1>6. TokensBounded
  <2>1. 0 \in Nat /\ \A t \in {0} : t <= 0
    OBVIOUS
  <2> QED BY <1>5, <2>1 DEF TokensBounded
<1>7. TokenAsTold
  BY DEF Init, NoRow, TokenAsTold
<1> QED BY <1>1, <1>3, <1>4, <1>6, <1>7 DEF IndInv

--------------------------------------------------------------------------------
\* A well-formed record in a request slot keeps all slots well-formed.
LEMMA SlotFacts ==
  ASSUME TypeOK, NEW r \in Request, NEW q \in Asked, req' = [req EXCEPT ![r] = q],
         q.stage # "idle" => q.job \in Job /\ q.body \in Body,
         q.stage \in {"apply", "commit"} => q.old \in Columns /\ q.new \in Columns
  PROVE  /\ req' \in [Request -> Asked]
         /\ \A x \in InFlight' : req'[x].job \in Job /\ req'[x].body \in Body
         /\ \A x \in InFlight' : req'[x].stage # "load" => req'[x].old \in Columns /\ req'[x].new \in Columns
         /\ req'[r] = q /\ \A x \in Request \ {r} : req'[x] = req[x]
<1>1. req' \in [Request -> Asked] /\ req'[r] = q /\ \A x \in Request \ {r} : req'[x] = req[x]
  BY DEF TypeOK
<1>2. q.stage \in {"idle", "load", "apply", "commit"}
  BY DEF Asked
<1> QED BY <1>1, <1>2 DEF TypeOK

\* The record of a request whose work goes on or ends.
LEMMA EndFacts ==
  ASSUME TypeOK, NEW r \in Request, End(r)
  PROVE  /\ req' \in [Request -> Asked]
         /\ \A x \in InFlight' : req'[x].job \in Job /\ req'[x].body \in Body
         /\ \A x \in InFlight' : req'[x].stage # "load" => req'[x].old \in Columns /\ req'[x].new \in Columns
         /\ req'[r] = Idle /\ \A x \in Request \ {r} : req'[x] = req[x]
BY SlotFacts, ColumnsFacts DEF End

LEMMA KeepFacts ==
  ASSUME TypeOK, NEW r \in Request, NEW new \in Columns, Keep(r, new),
         req[r].stage = "apply"
  PROVE  /\ req' \in [Request -> Asked]
         /\ \A x \in InFlight' : req'[x].job \in Job /\ req'[x].body \in Body
         /\ \A x \in InFlight' : req'[x].stage # "load" => req'[x].old \in Columns /\ req'[x].new \in Columns
         /\ req'[r].stage = "commit" /\ req'[r].job = req[r].job /\ req'[r].body = req[r].body
         /\ req'[r].old = req[r].old /\ req'[r].new = new
         /\ \A x \in Request \ {r} : req'[x] = req[x]
<1> DEFINE q == [req[r] EXCEPT !.stage = "commit", !.new = new]
<1>1. /\ q \in Asked /\ q.job \in Job /\ q.body \in Body /\ q.old \in Columns /\ q.new \in Columns
      /\ q.stage = "commit" /\ q.job = req[r].job /\ q.body = req[r].body /\ q.old = req[r].old /\ q.new = new
  BY DEF TypeOK, Asked
<1>2. req' = [req EXCEPT ![r] = q]
  BY DEF Keep
<1> HIDE DEF q
<1>3. /\ req' \in [Request -> Asked]
      /\ \A x \in InFlight' : req'[x].job \in Job /\ req'[x].body \in Body
      /\ \A x \in InFlight' : req'[x].stage # "load" => req'[x].old \in Columns /\ req'[x].new \in Columns
      /\ req'[r] = q /\ \A x \in Request \ {r} : req'[x] = req[x]
  BY <1>1, <1>2, SlotFacts
<1> QED BY <1>1, <1>3

\* What the steps of a request do to its slot: the request arrives, loads its row,
\* edits its copy, commits or ends.
LEMMA BeginFacts ==
  ASSUME TypeOK, NEW r \in Request, NEW j \in Job, NEW b \in Body, Begin(r, j, b)
  PROVE  /\ req' \in [Request -> Asked]
         /\ \A x \in InFlight' : req'[x].job \in Job /\ req'[x].body \in Body
         /\ \A x \in InFlight' : req'[x].stage # "load" => req'[x].old \in Columns /\ req'[x].new \in Columns
         /\ req'[r].stage = "load" /\ req'[r].job = j /\ req'[r].body = b
         /\ req'[r].old = NoRow /\ req'[r].new = NoRow
         /\ req[r] = Idle /\ r \notin InFlight
         /\ \A x \in Request \ {r} : req'[x] = req[x]
<1> DEFINE q == [Idle EXCEPT !.stage = "load", !.job = j, !.body = b]
<1>1. q \in Asked /\ q.job = j /\ q.body = b /\ q.stage = "load" /\ q.old = NoRow /\ q.new = NoRow
  BY DEF Asked, Idle
<1>2. req' = [req EXCEPT ![r] = q] /\ req[r] = Idle /\ r \notin InFlight
  BY ColumnsFacts DEF Begin
<1> HIDE DEF q
<1>3. /\ req' \in [Request -> Asked]
      /\ \A x \in InFlight' : req'[x].job \in Job /\ req'[x].body \in Body
      /\ \A x \in InFlight' : req'[x].stage # "load" => req'[x].old \in Columns /\ req'[x].new \in Columns
      /\ req'[r] = q /\ \A x \in Request \ {r} : req'[x] = req[x]
  BY <1>1, <1>2, SlotFacts
<1> QED BY <1>1, <1>2, <1>3

LEMMA LoadFacts ==
  ASSUME TypeOK, NEW r \in Request, Load(r)
  PROVE  /\ req' \in [Request -> Asked]
         /\ \A x \in InFlight' : req'[x].job \in Job /\ req'[x].body \in Body
         /\ \A x \in InFlight' : req'[x].stage # "load" => req'[x].old \in Columns /\ req'[x].new \in Columns
         /\ r \in InFlight /\ row[req[r].job] \in Columns
         /\ \/ Refused(req[r]) /\ req'[r] = Idle
            \/ /\ ~Refused(req[r])
               /\ req'[r].stage = "apply" /\ req'[r].job = req[r].job /\ req'[r].body = req[r].body
               /\ req'[r].old = row[req[r].job] /\ req'[r].new = row[req[r].job]
         /\ \A x \in Request \ {r} : req'[x] = req[x]
<1> DEFINE q == [req[r] EXCEPT !.stage = "apply", !.old = row[req[r].job], !.new = row[req[r].job]]
<1>1. r \in InFlight /\ row[req[r].job] \in Columns
  BY DEF Load, TypeOK
<1>2. CASE Refused(req[r])
  BY <1>1, <1>2, EndFacts DEF Load
<1>3. CASE ~Refused(req[r])
  <2>1. /\ q \in Asked /\ q.job \in Job /\ q.body \in Body /\ q.old \in Columns /\ q.new \in Columns
        /\ q.stage = "apply" /\ q.job = req[r].job /\ q.body = req[r].body
        /\ q.old = row[req[r].job] /\ q.new = row[req[r].job]
    BY <1>1 DEF TypeOK, Asked
  <2>2. req' = [req EXCEPT ![r] = q]
    BY <1>3 DEF Load
  <2> HIDE DEF q
  <2>3. /\ req' \in [Request -> Asked]
        /\ \A x \in InFlight' : req'[x].job \in Job /\ req'[x].body \in Body
        /\ \A x \in InFlight' : req'[x].stage # "load" => req'[x].old \in Columns /\ req'[x].new \in Columns
        /\ req'[r] = q /\ \A x \in Request \ {r} : req'[x] = req[x]
    BY <2>1, <2>2, SlotFacts
  <2> QED BY <1>1, <1>3, <2>1, <2>3
<1> QED BY <1>2, <1>3

\* Rescheduling edits the copy, or ends the request.
LEMMA RescheduleFacts ==
  ASSUME TypeOK, NEW r \in Request, req[r].stage = "apply",
         NEW new \in Columns, NEW removed \in GoodTrigger \cup {None},
         Reschedule(r, new, removed)
  PROVE  /\ entry' \in [Job -> GoodTrigger \cup {None}] /\ unscheduled' \subseteq Job
         /\ \A j \in Job \ {req[r].job} : entry'[j] = entry[j] /\ (j \in unscheduled' <=> j \in unscheduled)
         /\ \/ /\ new.status = "active" \/ req[r].body.op = "create"
               /\ new.trigger \in GoodTrigger /\ entry'[req[r].job] = new.trigger
               /\ Keep(r, [new EXCEPT !.sid = TRUE]) /\ [new EXCEPT !.sid = TRUE] \in Columns
               /\ unscheduled' = unscheduled \ {req[r].job}
            \/ /\ new.status = "active" \/ req[r].body.op = "create"
               /\ entry'[req[r].job] = removed
               /\ End(r)
               /\ unscheduled' = unscheduled \cup {req[r].job}
            \/ /\ new.status # "active" /\ req[r].body.op # "create"
               /\ entry'[req[r].job] = removed /\ unscheduled' = unscheduled
               /\ Keep(r, new)
<1>1. req[r].job \in Job /\ entry \in [Job -> GoodTrigger \cup {None}] /\ unscheduled \subseteq Job
  BY DEF TypeOK
<1>2. [new EXCEPT !.sid = TRUE] \in Columns
  BY DEF Columns
<1> QED BY <1>1, <1>2 DEF Reschedule

\* The copy that is scheduled, and what is left of the entry before.
LEMMA ApplyFacts ==
  ASSUME TypeOK, NEW r \in Request, Apply(r)
  PROVE  \E new \in Columns, removed \in GoodTrigger \cup {None} :
           /\ Reschedule(r, new, removed)
           /\ req[r].stage = "apply" /\ r \in InFlight /\ req[r].job \in Job
           /\ req[r].body.op \in {"create", "update"} /\ req[r].old \in Columns
           /\ new.sid = req[r].old.sid /\ new.token = req[r].old.token
           /\ req[r].body.op = "create" => new = req[r].old /\ removed = entry[req[r].job]
           /\ req[r].body.op = "update" => removed = Removed(req[r])
<1>1. /\ r \in InFlight /\ req[r].stage = "apply" /\ req[r].job \in Job /\ req[r].body \in Body
      /\ req[r].old \in Columns /\ entry[req[r].job] \in GoodTrigger \cup {None}
      /\ req[r].body.op \in {"create", "update"}
  BY DEF Apply, TypeOK
<1>2. CASE req[r].body.op = "create"
  <2>1. Reschedule(r, req[r].old, entry[req[r].job])
    BY <1>2 DEF Apply
  <2> QED BY <1>1, <1>2, <2>1
<1>3. CASE req[r].body.op = "update"
  <2>1. Reschedule(r, Edited(req[r]), Removed(req[r]))
    BY <1>3 DEF Apply
  <2>2. req[r].body.status \in Status \cup {None} /\ req[r].body.trigger \in Trigger \cup {None}
    BY <1>1, <1>3 DEF Body
  <2>3. Edited(req[r]) \in Columns /\ Edited(req[r]).sid = req[r].old.sid
        /\ Edited(req[r]).token = req[r].old.token
    BY <1>1, <2>2 DEF Edited, Columns
  <2>4. Removed(req[r]) \in GoodTrigger \cup {None}
    BY <1>1 DEF Removed
  <2> QED BY <1>1, <1>3, <2>1, <2>3, <2>4
<1> QED BY <1>1, <1>2, <1>3

\* A commit writes each column that the request has changed.
LEMMA CommitFacts ==
  ASSUME TypeOK, RowFirst, NEW r \in Request, Commit(r)
  PROVE  LET q == req[r]  j == q.job
         IN  /\ r \in InFlight /\ j \in Job /\ q.old \in Columns /\ q.new \in Columns
             /\ row[j] \in Columns /\ row' \in [Job -> Columns \cup {NoRow}] /\ row'[j] \in Columns
             /\ row'[j].status  = IF q.new.status # q.old.status THEN q.new.status ELSE row[j].status
             /\ row'[j].sid     = IF q.new.sid # q.old.sid THEN q.new.sid ELSE row[j].sid
             /\ row'[j].trigger = IF q.new.trigger # q.old.trigger THEN q.new.trigger ELSE row[j].trigger
             /\ row'[j].token   = IF q.new.token # q.old.token THEN q.new.token ELSE row[j].token
             /\ \A i \in Job \ {j} : row'[i] = row[i]
<1> DEFINE q == req[r]
           j == q.job
           w == {c \in DOMAIN q.old : q.new[c] # q.old[c]}
           m == [c \in DOMAIN row[j] |-> IF c \in w THEN q.new[c] ELSE row[j][c]]
           n == [status  |-> IF q.new.status # q.old.status THEN q.new.status ELSE row[j].status,
                 sid     |-> IF q.new.sid # q.old.sid THEN q.new.sid ELSE row[j].sid,
                 trigger |-> IF q.new.trigger # q.old.trigger THEN q.new.trigger ELSE row[j].trigger,
                 token   |-> IF q.new.token # q.old.token THEN q.new.token ELSE row[j].token]
<1>1. r \in InFlight /\ j \in Job /\ q.old \in Columns /\ q.new \in Columns /\ q.stage = "commit"
  BY DEF Commit, TypeOK
<1>2. row[j] \in Columns
  BY <1>1 DEF RowFirst, TypeOK
<1>3. row' = [row EXCEPT ![j] = m]
  BY DEF Commit
<1>4. DOMAIN q.old = {"status", "sid", "trigger", "token"} /\ DOMAIN row[j] = {"status", "sid", "trigger", "token"}
  BY <1>1, <1>2, ColumnsFacts
<1>5. m = n
  BY <1>4
<1>6. n \in Columns
  BY <1>1, <1>2 DEF Columns
<1>7. row' = [row EXCEPT ![j] = n]
  BY <1>3, <1>5
<1> HIDE DEF m, n
<1>8. row' \in [Job -> Columns \cup {NoRow}] /\ row'[j] = n /\ \A i \in Job \ {j} : row'[i] = row[i]
  BY <1>1, <1>6, <1>7 DEF TypeOK
<1> QED BY <1>1, <1>2, <1>6, <1>8 DEF n

LEMMA TypeStep == IndInv /\ [Next]_vars => TypeOK'
<1> SUFFICES ASSUME IndInv, [Next]_vars PROVE TypeOK'
  OBVIOUS
<1> USE DEF IndInv
<1>1. ASSUME NEW r \in Request, NEW j \in Job, NEW b \in Body, Begin(r, j, b) PROVE TypeOK'
  <2>1. requests' \in 0 .. MaxRequests
    BY <1>1, CountAssumption DEF Begin, TypeOK
  <2>2. overlapped' \subseteq Job
    BY <1>1 DEF Begin, TypeOK
  <2> QED BY <1>1, <2>1, <2>2, BeginFacts DEF Begin, TypeOK
<1>2. ASSUME NEW r \in Request, Insert(r) PROVE TypeOK'
  <2>1. req[r].job \in Job /\ req[r].body \in Body /\ req[r].body.op = "create"
    BY <1>2 DEF Insert, TypeOK, RowFirst
  <2>2. req[r].body.trigger \in Trigger
    BY <2>1 DEF Body
  <2>3. [status |-> "active", sid |-> FALSE, trigger |-> req[r].body.trigger, token |-> FreshToken] \in Columns
    BY <2>2, FreshFacts DEF Columns, Status
  <2> QED BY <1>2, <2>1, <2>3, FreshFacts DEF Insert, TypeOK
<1>3. ASSUME NEW r \in Request, Load(r) PROVE TypeOK'
  BY <1>3, LoadFacts DEF Load, TypeOK
<1>4. ASSUME NEW r \in Request, Apply(r) PROVE TypeOK'
  <2>1. PICK new \in Columns, removed \in GoodTrigger \cup {None} :
          Reschedule(r, new, removed) /\ req[r].stage = "apply"
    BY <1>4, ApplyFacts
  <2>2. entry' \in [Job -> GoodTrigger \cup {None}] /\ unscheduled' \subseteq Job
        /\ (End(r) \/ \E c \in Columns : Keep(r, c))
    BY <2>1, RescheduleFacts
  <2>3. /\ req' \in [Request -> Asked]
        /\ \A x \in InFlight' : req'[x].job \in Job /\ req'[x].body \in Body
        /\ \A x \in InFlight' : req'[x].stage # "load" => req'[x].old \in Columns /\ req'[x].new \in Columns
    BY <2>1, <2>2, EndFacts, KeepFacts
  <2> QED BY <1>4, <2>2, <2>3 DEF Apply, TypeOK
<1>5. ASSUME NEW r \in Request, ApplyDelete(r) PROVE TypeOK'
  <2>1. req[r].stage = "apply" /\ r \in InFlight
    BY <1>5 DEF ApplyDelete
  <2>2. [req[r].old EXCEPT !.status = "deleted"] \in Columns
    BY <2>1 DEF TypeOK, Columns, Status
  <2>3. Keep(r, [req[r].old EXCEPT !.status = "deleted"])
    BY <1>5 DEF ApplyDelete
  <2>4. Removed(req[r]) \in GoodTrigger \cup {None}
    BY <2>1 DEF Removed, TypeOK
  <2> QED BY <1>5, <2>1, <2>2, <2>3, <2>4, KeepFacts DEF ApplyDelete, TypeOK
<1>6. ASSUME NEW r \in Request, ApplyToken(r) PROVE TypeOK'
  <2>1. req[r].stage = "apply" /\ r \in InFlight
    BY <1>6 DEF ApplyToken
  <2>2. [req[r].old EXCEPT !.token = FreshToken] \in Columns
    BY <2>1, FreshFacts DEF TypeOK, Columns
  <2>3. Keep(r, [req[r].old EXCEPT !.token = FreshToken])
    BY <1>6 DEF ApplyToken
  <2> QED BY <1>6, <2>1, <2>2, <2>3, KeepFacts DEF ApplyToken, TypeOK
<1>7. ASSUME NEW r \in Request, Commit(r) PROVE TypeOK'
  <2>1. End(r)
    BY <1>7 DEF Commit
  <2>2. req[r].new.token \in Nat
    BY <1>7, CommitFacts, ColumnsFacts
  <2>3. told' \in [Job -> Nat]
    BY <1>7, <2>2 DEF Commit, Told, TypeOK
  <2>4. torn' \subseteq Job
    BY <1>7 DEF Commit, Mended, TypeOK
  <2> QED BY <1>7, <2>1, <2>3, <2>4, CommitFacts, EndFacts DEF Commit, TypeOK
<1>8. ASSUME NEW j \in Job, Expire(j) PROVE TypeOK'
  BY <1>8 DEF Expire, TypeOK
<1>11. ASSUME NEW r \in Request, StatementFails(r) PROVE TypeOK'
  <2>1. End(r) /\ req[r].job \in Job
    BY <1>11 DEF StatementFails, TypeOK
  <2>2. torn' \subseteq Job /\ unscheduled' \subseteq Job
    BY <1>11, <2>1 DEF StatementFails, TypeOK
  <2> QED BY <1>11, <2>1, <2>2, EndFacts DEF StatementFails, TypeOK
<1>9. ASSUME Restart PROVE TypeOK'
  <2>1. \A j \in Job : row[j].status = "active" => row[j] \in Columns
    BY DEF TypeOK, NoRow
  <2>2. \A c \in Columns : [c EXCEPT !.sid = TRUE] \in Columns
    BY DEF Columns
  <2>3. row' \in [Job -> Columns \cup {NoRow}]
    BY <1>9, <2>1, <2>2 DEF Restart, TypeOK
  <2>4. entry' \in [Job -> GoodTrigger \cup {None}]
    BY <1>9 DEF Restart
  <2>5. req' \in [Request -> Asked] /\ \A x \in Request : x \notin InFlight'
    BY <1>9, ColumnsFacts DEF Restart
  <2>6. crashes' \in 0 .. MaxCrashes
    BY <1>9, CountAssumption DEF Restart, TypeOK
  <2> QED BY <1>9, <2>3, <2>4, <2>5, <2>6 DEF Restart, TypeOK
<1>10. CASE UNCHANGED vars
  BY <1>10 DEF vars, TypeOK
<1> QED BY <1>1, <1>2, <1>3, <1>4, <1>5, <1>6, <1>7, <1>8, <1>9, <1>10, <1>11 DEF Next, Handle

--------------------------------------------------------------------------------
\* A request in flight goes on, for the same job and with the same body, or ends.
Goes(r) ==
  /\ r \in InFlight /\ overlapped' = overlapped
  /\ \/ req'[r] = Idle
     \/ r \in InFlight' /\ req'[r].job = req[r].job /\ req'[r].body = req[r].body
  /\ \A x \in Request \ {r} : req'[x] = req[x]

LEMMA HandleGoes ==
  ASSUME IndInv, NEW r \in Request, Handle(r)
  PROVE  Goes(r)
<1> USE DEF IndInv
<1>1. CASE Insert(r)
  BY <1>1 DEF Insert, Goes
<1>2. CASE Load(r)
  BY <1>2, LoadFacts DEF Load, Goes
<1>3. CASE Apply(r)
  <2>1. PICK new \in Columns, removed \in GoodTrigger \cup {None} :
          Reschedule(r, new, removed) /\ req[r].stage = "apply" /\ r \in InFlight
    BY <1>3, ApplyFacts
  <2>2. End(r) \/ \E c \in Columns : Keep(r, c)
    BY <2>1, RescheduleFacts
  <2> QED BY <1>3, <2>1, <2>2, EndFacts, KeepFacts DEF Apply, Goes
<1>4. CASE ApplyDelete(r) \/ ApplyToken(r)
  <2>1. req[r].stage = "apply" /\ r \in InFlight /\ req[r].old \in Columns /\ overlapped' = overlapped
    BY <1>4 DEF ApplyDelete, ApplyToken, TypeOK
  <2>2. [req[r].old EXCEPT !.status = "deleted"] \in Columns /\ [req[r].old EXCEPT !.token = FreshToken] \in Columns
    BY <2>1, FreshFacts DEF Columns, Status
  <2>3. \E c \in Columns : Keep(r, c)
    BY <1>4, <2>2 DEF ApplyDelete, ApplyToken
  <2> QED BY <2>1, <2>3, KeepFacts DEF Goes
<1>5. CASE Commit(r)
  BY <1>5, EndFacts DEF Commit, Goes
<1>6. CASE StatementFails(r)
  BY <1>6, EndFacts DEF StatementFails, Goes
<1> QED BY <1>1, <1>2, <1>3, <1>4, <1>5, <1>6 DEF Handle

\* So the requests in flight become fewer at most.
LEMMA GoesFacts ==
  ASSUME NEW r \in Request, Goes(r)
  PROVE  /\ InFlight' \subseteq InFlight
         /\ \A x \in InFlight' : req'[x].job = req[x].job /\ req'[x].body = req[x].body
         /\ \A j : PlansOf(j)' \subseteq PlansOf(j) /\ PlansOf(j) \subseteq PlansOf(j)' \cup {r}
         /\ req'[r] # Idle => \A j : PlansOf(j)' = PlansOf(j)
<1>1. InFlight' \subseteq InFlight /\ \A x \in InFlight' : req'[x].job = req[x].job /\ req'[x].body = req[x].body
  BY ColumnsFacts DEF Goes
<1>2. \A x \in Request \ {r} : x \in InFlight' <=> x \in InFlight
  BY DEF Goes
<1>3. req'[r] # Idle => r \in InFlight'
  BY DEF Goes
<1> QED BY <1>1, <1>2, <1>3 DEF PlansOf

\* Rows stay, and only a create request without one inserts a row.
LEMMA RowsStay ==
  ASSUME IndInv, [Next]_vars
  PROVE  \A j \in Job : row'[j] = NoRow => row[j] = NoRow
<1> USE DEF IndInv
<1>1. ASSUME NEW r \in Request, NEW j \in Job, NEW b \in Body, Begin(r, j, b) PROVE row' = row
  BY <1>1 DEF Begin
<1>2. ASSUME NEW r \in Request, Insert(r) PROVE \A j \in Job : row'[j] = NoRow => row[j] = NoRow
  BY <1>2 DEF Insert, TypeOK
<1>3. ASSUME NEW r \in Request,
             Load(r) \/ Apply(r) \/ ApplyDelete(r) \/ ApplyToken(r) \/ StatementFails(r)
      PROVE  row' = row
  BY <1>3 DEF Load, Apply, ApplyDelete, ApplyToken, StatementFails
<1>4. ASSUME NEW r \in Request, Commit(r) PROVE \A j \in Job : row'[j] = NoRow => row[j] = NoRow
  BY <1>4, CommitFacts, ColumnsFacts
<1>5. ASSUME NEW j \in Job, Expire(j) PROVE row' = row
  BY <1>5 DEF Expire
<1>6. ASSUME Restart PROVE \A j \in Job : row'[j] = NoRow => row[j] = NoRow
  BY <1>6 DEF Restart, NoRow, TypeOK, Columns
<1>7. CASE UNCHANGED vars
  BY <1>7 DEF vars
<1> QED BY <1>1, <1>2, <1>3, <1>4, <1>5, <1>6, <1>7 DEF Next, Handle

LEMMA TornStep == IndInv /\ [Next]_vars => TornHasRow'
<1> SUFFICES ASSUME IndInv, [Next]_vars, NEW j \in torn' PROVE row'[j] # NoRow
  BY DEF TornHasRow
<1> USE DEF IndInv
<1>1. j \in Job /\ (row'[j] = NoRow => row[j] = NoRow)
  BY RowsStay, TypeStep DEF TypeOK
<1>2. CASE j \in torn
  BY <1>1, <1>2 DEF TornHasRow
<1>3. ASSUME j \notin torn, NEW r \in Request, StatementFails(r) PROVE row[j] # NoRow
  BY <1>3 DEF StatementFails, RowFirst
<1>4. ASSUME NEW r \in Request, Insert(r) \/ Load(r) \/ Apply(r) \/ ApplyDelete(r) \/ ApplyToken(r)
                                \/ Commit(r) \/ \E i \in Job, b \in Body : Begin(r, i, b)
      PROVE  torn' \subseteq torn
  BY <1>4 DEF Insert, Load, Apply, ApplyDelete, ApplyToken, Commit, Mended, Begin
<1>5. (\E i \in Job : Expire(i)) \/ Restart \/ UNCHANGED vars => torn' \subseteq torn
  BY DEF Expire, Restart, vars
<1> QED BY <1>1, <1>2, <1>3, <1>4, <1>5 DEF Next, Handle

LEMMA AloneStep == IndInv /\ [Next]_vars => Alone'
<1> SUFFICES ASSUME IndInv, [Next]_vars PROVE Alone'
  OBVIOUS
<1> USE DEF IndInv
<1>1. ASSUME NEW r \in Request, NEW j \in Job, NEW b \in Body, Begin(r, j, b) PROVE Alone'
  <2>1. /\ \A i \in Job : i # j \/ b.op = "regenerate" => PlansOf(i)' = PlansOf(i)
        /\ PlansOf(j)' \subseteq PlansOf(j) \cup {r}
    BY <1>1, BeginFacts, ColumnsFacts DEF PlansOf
  <2>2. overlapped \subseteq overlapped'
    BY <1>1 DEF Begin
  <2>3. CASE j \in overlapped' \/ b.op = "regenerate"
    BY <2>1, <2>2, <2>3 DEF Alone
  <2>4. CASE j \notin overlapped' /\ b.op # "regenerate"
    <3>1. PlansOf(j) = {}
      BY <1>1, <2>4 DEF Begin, Overlaps, PlansOf
    <3> QED BY <2>1, <2>2, <3>1 DEF Alone
  <2> QED BY <2>3, <2>4
<1>2. ASSUME NEW r \in Request, Handle(r) PROVE Alone'
  <2>1. Goes(r)
    BY <1>2, HandleGoes
  <2>2. overlapped' = overlapped /\ \A j \in Job : PlansOf(j)' \subseteq PlansOf(j)
    BY <2>1, GoesFacts DEF Goes
  <2> QED BY <2>2 DEF Alone
<1>3. ASSUME NEW j \in Job, Expire(j) PROVE Alone'
  BY <1>3 DEF Expire, Alone, PlansOf
<1>4. ASSUME Restart PROVE Alone'
  BY <1>4, ColumnsFacts DEF Restart, Alone, PlansOf
<1>5. CASE UNCHANGED vars
  BY <1>5 DEF vars, Alone, PlansOf
<1> QED BY <1>1, <1>2, <1>3, <1>4, <1>5 DEF Next

LEMMA RowFirstStep == IndInv /\ [Next]_vars => RowFirst'
<1> SUFFICES ASSUME IndInv, [Next]_vars, NEW r \in InFlight', row'[req'[r].job] = NoRow
             PROVE  (/\ req[r].stage = "load" /\ req[r].body.op = "create"
                     /\ \A q \in InFlight : req[q].job = req[r].job => q = r)'
  BY DEF RowFirst
<1> USE DEF IndInv
<1>0. req'[r].job \in Job /\ row[req'[r].job] = NoRow
  BY RowsStay, TypeStep DEF TypeOK
<1>1. ASSUME NEW q \in Request, NEW j \in Job, NEW b \in Body, Begin(q, j, b)
      PROVE  (/\ req[r].stage = "load" /\ req[r].body.op = "create"
              /\ \A x \in InFlight : req[x].job = req[r].job => x = r)'
  <2>1. /\ req'[q].stage = "load" /\ req'[q].job = j /\ req'[q].body = b
        /\ InFlight' = InFlight \cup {q} /\ \A x \in Request \ {q} : req'[x] = req[x]
    BY <1>1, BeginFacts
  <2>2. row[j] = NoRow => b.op = "create" /\ \A x \in InFlight : req[x].job # j
    BY <1>1 DEF Begin
  <2>3. r # q => r \in InFlight /\ req'[r] = req[r]
    BY <2>1
  <2>4. CASE r = q
    BY <1>0, <2>1, <2>2, <2>4
  <2>5. CASE r # q
    BY <1>0, <2>1, <2>2, <2>3, <2>5 DEF RowFirst
  <2> QED BY <2>4, <2>5
<1>2. ASSUME NEW q \in Request, Handle(q)
      PROVE  (/\ req[r].stage = "load" /\ req[r].body.op = "create"
              /\ \A x \in InFlight : req[x].job = req[r].job => x = r)'
  <2>1. Goes(q)
    BY <1>2, HandleGoes
  <2>2. /\ r \in InFlight /\ req'[r].job = req[r].job /\ req'[r].body = req[r].body
        /\ \A x \in InFlight' : x \in InFlight /\ req'[x].job = req[x].job
    BY <2>1, GoesFacts
  <2>3. /\ req[r].stage = "load" /\ req[r].body.op = "create"
        /\ \A x \in InFlight : req[x].job = req[r].job => x = r
    BY <1>0, <2>2 DEF RowFirst
  <2>5. ~ StatementFails(r)
    BY EndFacts, ColumnsFacts DEF StatementFails
  <2>4. q # r
    BY <1>0, <1>2, <2>2, <2>3, <2>5 DEF Handle, Insert, Load, Apply, ApplyDelete, ApplyToken, Commit, TypeOK, NoRow
  <2> QED BY <2>1, <2>2, <2>3, <2>4 DEF Goes
<1>3. ASSUME NEW j \in Job, Expire(j)
      PROVE  (/\ req[r].stage = "load" /\ req[r].body.op = "create"
              /\ \A x \in InFlight : req[x].job = req[r].job => x = r)'
  BY <1>0, <1>3 DEF Expire, RowFirst
<1>4. ASSUME Restart PROVE FALSE
  BY <1>4, ColumnsFacts DEF Restart
<1>5. CASE UNCHANGED vars
  BY <1>0, <1>5 DEF vars, RowFirst
<1> QED BY <1>1, <1>2, <1>3, <1>4, <1>5 DEF Next

--------------------------------------------------------------------------------
\* A scheduler id is never taken out of the row again.
LEMMA IdsStay ==
  ASSUME IndInv, [Next]_vars
  PROVE  \A j \in Job : row[j].sid => row'[j].sid
<1> USE DEF IndInv
<1>1. ASSUME NEW r \in Request, Insert(r) PROVE \A j \in Job : row[j].sid => row'[j].sid
  BY <1>1 DEF Insert, TypeOK, NoRow
<1>2. ASSUME NEW r \in Request, Commit(r) PROVE \A j \in Job : row[j].sid => row'[j].sid
  <2>1. req[r].stage = "commit"
    BY <1>2 DEF Commit
  <2>2. req[r].old.sid => req[r].new.sid
    BY <2>1 DEF CopyShape
  <2>3. req[r].old.sid \in BOOLEAN /\ req[r].new.sid \in BOOLEAN
    BY <1>2, CommitFacts DEF Columns
  <2> QED BY <1>2, <2>2, <2>3, CommitFacts
<1>3. ASSUME Restart PROVE \A j \in Job : row[j].sid => row'[j].sid
  <2>1. \A j \in Job : [row[j] EXCEPT !.sid = TRUE].sid
    BY DEF TypeOK, Columns, NoRow
  <2> QED BY <1>3, <2>1 DEF Restart
<1>4. (\E r \in Request : Load(r) \/ Apply(r) \/ ApplyDelete(r) \/ ApplyToken(r) \/ StatementFails(r)
                          \/ \E j \in Job, b \in Body : Begin(r, j, b))
      \/ (\E j \in Job : Expire(j)) \/ UNCHANGED vars => row' = row
  BY DEF Load, Apply, ApplyDelete, ApplyToken, StatementFails, Begin, Expire, vars
<1> QED BY <1>1, <1>2, <1>3, <1>4 DEF Next, Handle

\* The shape of one copy; CopyShape is that of all.
Kept(q) ==
  /\ q.old.sid => row[q.job].sid
  /\ q.old.status = "deleted" => q.body.op \in {"delete", "create"}
  /\ q.stage = "commit" =>
       /\ q.old.sid => q.new.sid
       /\ q.body.op = "delete" => q.new.status = "deleted"
       /\ q.body.op = "create" => q.new.status = q.old.status
       /\ q.body.op = "regenerate" => Same(q.old, q.new)
       /\ q.new.token = q.old.token <=> q.body.op # "regenerate"

LEMMA CopyStep ==
  ASSUME IndInv, [Next]_vars, NEW r \in Request, Handle(r), r \in InFlight', req'[r].stage # "load"
  PROVE  Kept(req[r])'
<1> USE DEF IndInv
<1>1. TypeOK' /\ \A j \in Job : row[j].sid => row'[j].sid
  BY TypeStep, IdsStay
<1>2. CASE Insert(r)
  BY <1>2 DEF Insert
<1>3. CASE Load(r)
  BY <1>3, LoadFacts, ColumnsFacts DEF Load, Refused, Kept
<1>4. CASE Apply(r)
  <2>1. PICK new \in Columns, removed \in GoodTrigger \cup {None} :
           /\ Reschedule(r, new, removed)
           /\ req[r].stage = "apply" /\ r \in InFlight /\ req[r].job \in Job
           /\ req[r].body.op \in {"create", "update"} /\ req[r].old \in Columns
           /\ new.sid = req[r].old.sid /\ new.token = req[r].old.token
           /\ req[r].body.op = "create" => new = req[r].old
    BY <1>4, ApplyFacts
  <2>2. \E c \in Columns : Keep(r, c) /\ c.token = new.token /\ (new.sid => c.sid)
                              /\ c.status = new.status
    <3>1. /\ [new EXCEPT !.sid = TRUE].token = new.token /\ [new EXCEPT !.sid = TRUE].sid
          /\ [new EXCEPT !.sid = TRUE].status = new.status
      BY DEF Columns
    <3>2. ~ End(r)
      BY ColumnsFacts, EndFacts
    <3> QED BY <2>1, <3>1, <3>2, RescheduleFacts
  <2>3. /\ req'[r].old = req[r].old /\ req'[r].body = req[r].body /\ req'[r].job = req[r].job
        /\ req'[r].new.token = req[r].old.token /\ (req[r].old.sid => req'[r].new.sid)
        /\ req[r].body.op = "create" => req'[r].new.status = req[r].old.status
    BY <2>1, <2>2, KeepFacts
  <2> QED BY <1>1, <2>1, <2>3 DEF CopyShape, Kept
<1>5. CASE ApplyDelete(r)
  <2> DEFINE new == [req[r].old EXCEPT !.status = "deleted"]
  <2>1. req[r].stage = "apply" /\ r \in InFlight /\ req[r].old \in Columns /\ req[r].job \in Job
        /\ req[r].body.op = "delete" /\ Keep(r, new)
    BY <1>5 DEF ApplyDelete, TypeOK
  <2>2. new \in Columns /\ new.sid = req[r].old.sid /\ new.token = req[r].old.token /\ new.status = "deleted"
    BY <2>1 DEF Columns, Status
  <2> HIDE DEF new
  <2>3. /\ req'[r].old = req[r].old /\ req'[r].body = req[r].body /\ req'[r].job = req[r].job
        /\ req'[r].new = new
    BY <2>1, <2>2, KeepFacts
  <2> QED BY <1>1, <2>1, <2>2, <2>3 DEF CopyShape, Kept
<1>6. CASE ApplyToken(r)
  <2> DEFINE new == [req[r].old EXCEPT !.token = FreshToken]
  <2>1. req[r].stage = "apply" /\ r \in InFlight /\ req[r].old \in Columns /\ req[r].job \in Job
        /\ req[r].body.op = "regenerate" /\ Keep(r, new)
    BY <1>6 DEF ApplyToken, TypeOK
  <2>2. req[r].old.token < FreshToken /\ req[r].old.token \in Nat /\ FreshToken \in Nat \ {0}
    BY FreshFacts DEF Tokens
  <2>3. new \in Columns /\ new.sid = req[r].old.sid /\ new.token = FreshToken
        /\ Same(req[r].old, new)
    BY <2>1, <2>2 DEF Columns, Same
  <2> HIDE DEF new
  <2>4. /\ req'[r].old = req[r].old /\ req'[r].body = req[r].body /\ req'[r].job = req[r].job
        /\ req'[r].new = new
    BY <2>1, <2>3, KeepFacts
  <2> QED BY <1>1, <2>1, <2>2, <2>3, <2>4 DEF CopyShape, Kept
<1>7. CASE Commit(r) \/ StatementFails(r)
  BY <1>7, EndFacts, ColumnsFacts DEF Commit, StatementFails
<1> QED BY <1>2, <1>3, <1>4, <1>5, <1>6, <1>7 DEF Handle

LEMMA CopyShapeStep == IndInv /\ [Next]_vars => CopyShape'
<1> SUFFICES ASSUME IndInv, [Next]_vars, NEW r \in InFlight', req'[r].stage # "load"
             PROVE  Kept(req[r])'
  BY DEF CopyShape, Kept
<1> USE DEF IndInv
<1>0. \A j \in Job : row[j].sid => row'[j].sid
  BY IdsStay
<1>1. ASSUME r \in InFlight, req'[r] = req[r] PROVE Kept(req[r])'
  <2>1. Kept(req[r]) /\ req[r].job \in Job
    BY <1>1 DEF CopyShape, Kept, TypeOK
  <2> QED BY <1>0, <1>1, <2>1 DEF Kept
<1>2. ASSUME NEW q \in Request, NEW j \in Job, NEW b \in Body, Begin(q, j, b) PROVE Kept(req[r])'
  BY <1>1, <1>2, BeginFacts
<1>3. ASSUME NEW q \in Request, Handle(q) PROVE Kept(req[r])'
  <2>1. CASE q = r
    BY <1>3, <2>1, CopyStep
  <2>2. CASE q # r
    BY <1>1, <1>3, <2>2, HandleGoes DEF Goes
  <2> QED BY <2>1, <2>2
<1>4. ASSUME NEW j \in Job, Expire(j) PROVE Kept(req[r])'
  BY <1>1, <1>4 DEF Expire
<1>5. ASSUME Restart PROVE FALSE
  BY <1>5, ColumnsFacts DEF Restart
<1>6. CASE UNCHANGED vars
  BY <1>1, <1>6 DEF vars
<1> QED BY <1>2, <1>3, <1>4, <1>5, <1>6 DEF Next

--------------------------------------------------------------------------------
\* A request that has edited its copy still holds the row as it loaded it.
LEMMA EditFacts ==
  ASSUME IndInv, NEW r \in Request, Apply(r) \/ ApplyDelete(r) \/ ApplyToken(r)
  PROVE  /\ req[r].stage = "apply" /\ r \in InFlight /\ req[r].job \in Job /\ req[r].old \in Columns
         /\ row' = row
         /\ req'[r] # Idle =>
              /\ req'[r].stage = "commit" /\ req'[r].job = req[r].job /\ req'[r].body = req[r].body
              /\ req'[r].old = req[r].old
              /\ req'[r].new.token \in {req[r].old.token, FreshToken}
<1> USE DEF IndInv
<1>1. /\ req[r].stage = "apply" /\ r \in InFlight /\ req[r].job \in Job /\ req[r].old \in Columns
      /\ row' = row
  BY DEF Apply, ApplyDelete, ApplyToken, TypeOK
<1>2. CASE Apply(r)
  <2>1. PICK new \in Columns, removed \in GoodTrigger \cup {None} :
           Reschedule(r, new, removed) /\ new.token = req[r].old.token
    BY <1>2, ApplyFacts
  <2>2. [new EXCEPT !.sid = TRUE].token = new.token
    BY DEF Columns
  <2>3. End(r) \/ \E c \in Columns : Keep(r, c) /\ c.token = new.token
    BY <1>1, <2>1, <2>2, RescheduleFacts
  <2> QED BY <1>1, <2>1, <2>3, KeepFacts, EndFacts
<1>3. CASE ApplyDelete(r) \/ ApplyToken(r)
  <2>1. [req[r].old EXCEPT !.status = "deleted"] \in Columns /\ [req[r].old EXCEPT !.token = FreshToken] \in Columns
    BY <1>1, FreshFacts DEF Columns, Status
  <2>2. [req[r].old EXCEPT !.status = "deleted"].token = req[r].old.token
        /\ [req[r].old EXCEPT !.token = FreshToken].token = FreshToken
    BY <1>1 DEF Columns
  <2>3. \E c \in Columns : Keep(r, c) /\ c.token \in {req[r].old.token, FreshToken}
    BY <1>3, <2>1, <2>2 DEF ApplyDelete, ApplyToken
  <2> QED BY <1>1, <2>3, KeepFacts
<1> QED BY <1>1, <1>2, <1>3

LEMMA TokensStep == IndInv /\ [Next]_vars => TokensBounded'
<1> SUFFICES ASSUME IndInv, [Next]_vars PROVE TokensBounded'
  OBVIOUS
<1> USE DEF IndInv
<1> DEFINE S == Tokens \cup {FreshToken}
<1>0. /\ 0 \in S /\ \A j \in Job : row[j].token \in S
      /\ \A r \in Request : req[r].old.token \in S /\ req[r].new.token \in S
  BY DEF Tokens
<1>1. Idle.old.token \in S /\ Idle.new.token \in S /\ NoRow.token \in S
  BY <1>0 DEF Idle, NoRow
<1> HIDE DEF S
<1>2. ASSUME NEW r \in Request, NEW j \in Job, NEW b \in Body, Begin(r, j, b)
      PROVE  /\ \A i \in Job : row'[i].token \in S
             /\ \A x \in Request : req'[x].old.token \in S /\ req'[x].new.token \in S
  BY <1>0, <1>1, <1>2, BeginFacts DEF Begin
<1>3. ASSUME NEW r \in Request, Insert(r)
      PROVE  /\ \A i \in Job : row'[i].token \in S
             /\ \A x \in Request : req'[x].old.token \in S /\ req'[x].new.token \in S
  <2>1. FreshToken \in S
    BY DEF S
  <2> QED BY <1>0, <1>3, <2>1 DEF Insert, TypeOK
<1>4. ASSUME NEW r \in Request, Load(r)
      PROVE  /\ \A i \in Job : row'[i].token \in S
             /\ \A x \in Request : req'[x].old.token \in S /\ req'[x].new.token \in S
  <2>1. req[r].job \in Job /\ row' = row
    BY <1>4, LoadFacts DEF Load, TypeOK
  <2> QED BY <1>0, <1>1, <1>4, <2>1, LoadFacts
<1>5. ASSUME NEW r \in Request, Apply(r) \/ ApplyDelete(r) \/ ApplyToken(r)
      PROVE  /\ \A i \in Job : row'[i].token \in S
             /\ \A x \in Request : req'[x].old.token \in S /\ req'[x].new.token \in S
  <2>1. FreshToken \in S
    BY DEF S
  <2>2. \A x \in Request \ {r} : req'[x] = req[x]
    BY <1>5, HandleGoes DEF Handle, Goes
  <2> QED BY <1>0, <1>1, <1>5, <2>1, <2>2, EditFacts
<1>13. ASSUME NEW r \in Request, StatementFails(r)
      PROVE  /\ \A i \in Job : row'[i].token \in S
             /\ \A x \in Request : req'[x].old.token \in S /\ req'[x].new.token \in S
  BY <1>0, <1>1, <1>13, EndFacts DEF StatementFails
<1>6. ASSUME NEW r \in Request, Commit(r)
      PROVE  /\ \A i \in Job : row'[i].token \in S
             /\ \A x \in Request : req'[x].old.token \in S /\ req'[x].new.token \in S
  <2>1. End(r)
    BY <1>6 DEF Commit
  <2> QED BY <1>0, <1>1, <1>6, <2>1, CommitFacts, EndFacts
<1>7. ASSUME NEW j \in Job, Expire(j)
      PROVE  /\ \A i \in Job : row'[i].token \in S
             /\ \A x \in Request : req'[x].old.token \in S /\ req'[x].new.token \in S
  BY <1>0, <1>7 DEF Expire
<1>8. ASSUME Restart
      PROVE  /\ \A i \in Job : row'[i].token \in S
             /\ \A x \in Request : req'[x].old.token \in S /\ req'[x].new.token \in S
  <2>1. \A i \in Job : [row[i] EXCEPT !.sid = TRUE].token = row[i].token
    BY DEF TypeOK, Columns, NoRow
  <2> QED BY <1>0, <1>1, <1>8, <2>1 DEF Restart
<1>9. ASSUME UNCHANGED vars
      PROVE  /\ \A i \in Job : row'[i].token \in S
             /\ \A x \in Request : req'[x].old.token \in S /\ req'[x].new.token \in S
  BY <1>0, <1>9 DEF vars
<1>10. /\ \A i \in Job : row'[i].token \in S
       /\ \A x \in Request : req'[x].old.token \in S /\ req'[x].new.token \in S
  BY <1>2, <1>3, <1>4, <1>5, <1>6, <1>7, <1>8, <1>9, <1>13 DEF Next, Handle
<1>11. Tokens' \subseteq S
  BY <1>0, <1>10 DEF Tokens
<1>12. FreshToken \in Nat /\ \A t \in S : t \in Nat /\ t <= FreshToken
  BY FreshFacts DEF S
<1> QED BY <1>11, <1>12 DEF TokensBounded

LEMMA ToldStep == IndInv /\ [Next]_vars => TokenAsTold'
<1> SUFFICES ASSUME IndInv, [Next]_vars PROVE TokenAsTold'
  OBVIOUS
<1> USE DEF IndInv
<1>1. ASSUME NEW r \in Request, Insert(r) PROVE TokenAsTold'
  BY <1>1 DEF Insert, TypeOK, TokenAsTold
<1>2. ASSUME NEW r \in Request, Commit(r) PROVE TokenAsTold'
  <2>1. r \in InFlight /\ req[r].stage = "commit"
    BY <1>2 DEF Commit
  <2>2. req[r].new.token = req[r].old.token <=> req[r].body.op # "regenerate"
    BY <2>1 DEF CopyShape
  <2>3. told' = Told(req[r]) /\ req[r].job \in Job
    BY <1>2, <2>1 DEF Commit, TypeOK
  <2>4. told'[req[r].job] = row'[req[r].job].token
    BY <1>2, <2>2, <2>3, CommitFacts DEF Told, TypeOK, TokenAsTold
  <2>5. \A j \in Job \ {req[r].job} : told'[j] = told[j] /\ row'[j] = row[j]
    BY <1>2, <2>3, CommitFacts DEF Told, TypeOK
  <2> QED BY <2>4, <2>5 DEF TokenAsTold
<1>3. ASSUME Restart PROVE TokenAsTold'
  <2>1. \A i \in Job : [row[i] EXCEPT !.sid = TRUE].token = row[i].token
    BY DEF TypeOK, Columns, NoRow
  <2> QED BY <1>3, <2>1 DEF Restart, TokenAsTold
<1>4. (\E r \in Request : Load(r) \/ Apply(r) \/ ApplyDelete(r) \/ ApplyToken(r) \/ StatementFails(r)
                          \/ \E j \in Job, b \in Body : Begin(r, j, b))
      \/ (\E j \in Job : Expire(j)) \/ UNCHANGED vars => row' = row /\ told' = told
  BY DEF Load, Apply, ApplyDelete, ApplyToken, StatementFails, Begin, Expire, vars
<1>5. row' = row /\ told' = told => TokenAsTold'
  BY DEF TokenAsTold
<1> QED BY <1>1, <1>2, <1>3, <1>4, <1>5 DEF Next, Handle

--------------------------------------------------------------------------------
\* A request that is not about the schedule of a job leaves it alone.
LEMMA OthersKeep ==
  ASSUME IndInv, NEW q \in Request, Handle(q), NEW j \in Job, q \notin PlansOf(j)
  PROVE  /\ Same(row[j], row'[j]) /\ entry'[j] = entry[j]
         /\ j \in unscheduled' <=> j \in unscheduled
         /\ j \in torn' <=> j \in torn
<1> USE DEF IndInv
<1>1. CASE Insert(q)
  <2>1. req[q].job # j
    BY <1>1 DEF Insert, RowFirst, PlansOf
  <2> QED BY <1>1, <2>1 DEF Insert, TypeOK, Same
<1>2. CASE Load(q) \/ ApplyToken(q)
  BY <1>2 DEF Load, ApplyToken, Same
<1>3. CASE Apply(q)
  <2>1. PICK new \in Columns, removed \in GoodTrigger \cup {None} :
          /\ Reschedule(q, new, removed) /\ req[q].stage = "apply" /\ q \in InFlight
          /\ req[q].body.op \in {"create", "update"}
    BY <1>3, ApplyFacts
  <2>2. req[q].job # j
    BY <2>1 DEF PlansOf
  <2>3. row' = row /\ torn' = torn
    BY <1>3 DEF Apply
  <2> QED BY <2>1, <2>2, <2>3, RescheduleFacts DEF Same
<1>4. CASE ApplyDelete(q)
  <2>1. req[q].job # j
    BY <1>4 DEF ApplyDelete, PlansOf
  <2> QED BY <1>4, <2>1 DEF ApplyDelete, TypeOK, Same
<1>5. CASE Commit(q)
  <2>1. q \in InFlight /\ req[q].stage = "commit" /\ entry' = entry /\ unscheduled' = unscheduled
    BY <1>5 DEF Commit
  <2>4. j \in torn' <=> j \in torn
    BY <1>5, <2>1 DEF Commit, Mended, PlansOf
  <2>2. CASE req[q].job # j
    BY <1>5, <2>1, <2>2, <2>4, CommitFacts DEF Same
  <2>3. CASE req[q].job = j
    <3>1. req[q].body.op = "regenerate"
      BY <2>1, <2>3 DEF PlansOf
    <3>2. Same(req[q].old, req[q].new)
      BY <2>1, <3>1 DEF CopyShape
    <3> QED BY <1>5, <2>1, <2>3, <2>4, <3>2, CommitFacts DEF Same
  <2> QED BY <2>2, <2>3
<1>6. CASE StatementFails(q)
  <2>1. req[q].job # j \/ req[q].body.op = "regenerate"
    BY <1>6 DEF StatementFails, PlansOf
  <2> QED BY <1>6, <2>1 DEF StatementFails, Same
<1> QED BY <1>1, <1>2, <1>3, <1>4, <1>5, <1>6 DEF Handle

\* A commit of the only request for a schedule writes its copy.
LEMMA CommitWrites ==
  ASSUME IndInv, NEW q \in Request, Commit(q), NEW j \in Job \ overlapped, q \in PlansOf(j)
  PROVE  Same(req[q].new, row'[j])
<1> USE DEF IndInv
<1>1. req[q].stage = "commit" /\ req[q].job = j
  BY DEF Commit, PlansOf
<1>2. Same(req[q].old, row[j])
  BY <1>1 DEF CopyCurrent
<1> QED BY <1>1, <1>2, CommitFacts DEF Same

LEMMA CopyCurrentStep == IndInv /\ [Next]_vars => CopyCurrent'
<1> SUFFICES ASSUME IndInv, [Next]_vars, NEW j \in Job \ overlapped', NEW r \in PlansOf(j)',
                    req'[r].stage # "load"
             PROVE  Same(req'[r].old, row'[j])
  BY DEF CopyCurrent
<1> USE DEF IndInv
<1>1. ASSUME NEW q \in Request, NEW i \in Job, NEW b \in Body, Begin(q, i, b)
      PROVE  Same(req'[r].old, row'[j])
  <2>1. r # q /\ j \notin overlapped /\ row' = row
    BY <1>1, BeginFacts DEF Begin
  <2>2. r \in PlansOf(j) /\ req'[r] = req[r]
    BY <1>1, <2>1, BeginFacts DEF PlansOf
  <2> QED BY <2>1, <2>2 DEF CopyCurrent
<1>2. ASSUME NEW q \in Request, Handle(q) PROVE Same(req'[r].old, row'[j])
  <2>1. Goes(q)
    BY <1>2, HandleGoes
  <2>2. r \in PlansOf(j) /\ j \notin overlapped /\ r \in InFlight'
    BY <2>1, GoesFacts DEF Goes, PlansOf
  <2>3. CASE q # r
    <3>1. q \notin PlansOf(j)
      BY <2>2, <2>3 DEF Alone
    <3>2. Same(row[j], row'[j]) /\ req'[r] = req[r]
      BY <1>2, <2>1, <2>2, <2>3, <3>1, OthersKeep DEF Goes
    <3> QED BY <2>2, <3>2 DEF CopyCurrent, Same
  <2>4. CASE q = r
    <3>1. req[r].job = j /\ req'[r] # Idle
      BY <2>2, ColumnsFacts DEF PlansOf
    <3>2. ~ Insert(r) /\ ~ Commit(r) /\ ~ StatementFails(r)
      BY <2>2, <3>1, EndFacts DEF Insert, Commit, StatementFails
    <3>3. CASE Load(r)
      BY <2>4, <3>1, <3>3, LoadFacts DEF Load, Same
    <3>4. CASE Apply(r) \/ ApplyDelete(r) \/ ApplyToken(r)
      BY <2>2, <3>1, <3>4, EditFacts DEF CopyCurrent
    <3> QED BY <1>2, <2>4, <3>2, <3>3, <3>4 DEF Handle
  <2> QED BY <2>3, <2>4
<1>3. ASSUME NEW i \in Job, Expire(i) PROVE Same(req'[r].old, row'[j])
  BY <1>3 DEF Expire, PlansOf, CopyCurrent
<1>4. ASSUME Restart PROVE FALSE
  BY <1>4, ColumnsFacts DEF Restart, PlansOf
<1>5. CASE UNCHANGED vars
  BY <1>5 DEF vars, PlansOf, CopyCurrent
<1> QED BY <1>1, <1>2, <1>3, <1>4, <1>5 DEF Next

--------------------------------------------------------------------------------
\* What the only request for the schedule of a job makes of the agreement.
LEMMA PlannedStep ==
  ASSUME IndInv, [Next]_vars, NEW q \in Request, Handle(q), NEW j \in Job \ overlapped, q \in PlansOf(j)
  PROVE  /\ req'[q] = Idle /\ j \notin torn' => Agrees(j, row[j])'
         /\ req'[q] # Idle => Planned(j, req[q])'
<1> USE DEF IndInv
<1>0. /\ q \in InFlight /\ req[q].job = j /\ req[q].body.op # "regenerate"
      /\ Planned(j, req[q]) /\ (req[q].stage # "load" => Same(req[q].old, row[j]))
      /\ req[q].body \in Body
  BY DEF PlansOf, ScheduleKept, CopyCurrent, TypeOK
<1>1. CASE Insert(q)
  <2>1. req[q].stage = "load" /\ row[j] = NoRow /\ req' = req /\ entry' = entry /\ unscheduled' = unscheduled
        /\ row'[j].status = "active" /\ torn' = torn
    BY <1>0, <1>1 DEF Insert, TypeOK
  <2>2. req[q].body.op = "create"
    BY <1>0, <2>1 DEF RowFirst
  <2>3. req'[q] # Idle
    BY <2>1, ColumnsFacts
  <2> QED BY <1>0, <2>1, <2>2, <2>3 DEF Planned
<1>2. CASE Load(q)
  <2>1. /\ req[q].stage = "load" /\ row' = row /\ entry' = entry /\ unscheduled' = unscheduled
        /\ torn' = torn
    BY <1>2 DEF Load
  <2>2. CASE Refused(req[q]) /\ req'[q] = Idle
    <3>1. req[q].body.op # "create"
      BY <2>2 DEF Refused
    <3>2. j \notin torn => Agrees(j, row[j])
      BY <1>0, <2>1, <3>1 DEF Planned
    <3> QED BY <2>1, <2>2, <3>2 DEF Agrees
  <2>3. CASE req'[q].stage = "apply" /\ req'[q].body = req[q].body
    <3>1. req'[q] # Idle
      BY <2>3, ColumnsFacts
    <3> QED BY <1>0, <2>1, <2>3, <3>1 DEF Planned, Agrees
  <2> QED BY <1>2, <2>2, <2>3, LoadFacts
<1>3. CASE Apply(q)
  <2>1. PICK new \in Columns, removed \in GoodTrigger \cup {None} :
           /\ Reschedule(q, new, removed) /\ req[q].stage = "apply"
           /\ req[q].body.op \in {"create", "update"} /\ req[q].old \in Columns
           /\ new.sid = req[q].old.sid
           /\ req[q].body.op = "create" => new = req[q].old /\ removed = entry[j]
           /\ req[q].body.op = "update" => removed = Removed(req[q])
    BY <1>0, <1>3, ApplyFacts
  <2>6. torn' = torn
    BY <1>3 DEF Apply
  <2>2. /\ j \notin torn \/ new.sid => removed = None
        /\ req[q].body.op = "create" => new.status = "active"
    <3>1. CASE req[q].body.op = "create"
      <4>1. entry[j] = None /\ req[q].old.status \in {"absent", "active"}
        BY <1>0, <2>1, <3>1 DEF Planned, Same
      <4> QED BY <2>1, <3>1, <4>1 DEF Columns, Status
    <3>2. CASE req[q].body.op = "update"
      <4>1. j \notin torn /\ entry[j] # None => req[q].old.sid
        BY <1>0, <2>1, <3>2 DEF Planned, Agrees, Same
      <4> QED BY <1>0, <2>1, <3>2, <4>1 DEF Removed
    <3> QED BY <2>1, <3>1, <3>2
  <2>3. CASE /\ new.status = "active" \/ req[q].body.op = "create"
             /\ new.trigger \in GoodTrigger /\ entry'[j] = new.trigger
             /\ Keep(q, [new EXCEPT !.sid = TRUE]) /\ [new EXCEPT !.sid = TRUE] \in Columns
    <3> DEFINE c == [new EXCEPT !.sid = TRUE]
    <3>1. c.status = "active" /\ c.sid /\ c.trigger = entry'[j]
      BY <2>1, <2>2, <2>3 DEF Columns
    <3>2. entry'[j] # None
      BY <2>3, TriggerAssumption
    <3>3. req'[q].stage = "commit" /\ req'[q].new = c
      BY <2>1, <2>3, KeepFacts
    <3> HIDE DEF c
    <3>4. req'[q] # Idle
      BY <3>3, ColumnsFacts
    <3> QED BY <3>1, <3>2, <3>3, <3>4 DEF Planned, Agrees
  <2>4. CASE entry'[j] = removed /\ End(q) /\ unscheduled' = unscheduled \cup {j}
    <3>1. j \notin torn' => Agrees(j, row[j])'
      BY <2>2, <2>4, <2>6 DEF Agrees
    <3> QED BY <2>4, <3>1, EndFacts
  <2>5. CASE new.status # "active" /\ entry'[j] = removed /\ Keep(q, new)
    <3>1. req'[q].stage = "commit" /\ req'[q].new = new
      BY <2>1, <2>5, KeepFacts
    <3>2. req'[q] # Idle
      BY <3>1, ColumnsFacts
    <3> QED BY <2>2, <2>5, <2>6, <3>1, <3>2 DEF Planned, Agrees
  <2> QED BY <1>0, <2>1, <2>3, <2>4, <2>5, RescheduleFacts
<1>4. CASE ApplyDelete(q)
  <2> DEFINE c == [req[q].old EXCEPT !.status = "deleted"]
  <2>1. /\ req[q].stage = "apply" /\ req[q].body.op = "delete" /\ req[q].old \in Columns
        /\ Keep(q, c) /\ entry'[j] = Removed(req[q]) /\ torn' = torn
    BY <1>0, <1>4 DEF ApplyDelete, TypeOK
  <2>2. j \notin torn /\ entry[j] # None => req[q].old.sid
    BY <1>0, <2>1 DEF Planned, Agrees, Same
  <2>3. j \notin torn \/ req[q].old.sid => entry'[j] = None
    BY <1>0, <2>1, <2>2 DEF Removed
  <2>4. c \in Columns /\ c.status = "deleted" /\ c.sid = req[q].old.sid
    BY <2>1 DEF Columns, Status
  <2> HIDE DEF c
  <2>5. req'[q].stage = "commit" /\ req'[q].new = c
    BY <2>1, <2>4, KeepFacts
  <2>6. req'[q] # Idle
    BY <2>5, ColumnsFacts
  <2> QED BY <2>1, <2>3, <2>4, <2>5, <2>6 DEF Planned, Agrees
<1>5. CASE Commit(q)
  <2>1. req[q].stage = "commit" /\ End(q) /\ entry' = entry /\ unscheduled' = unscheduled
    BY <1>5 DEF Commit
  <2>4. j \notin torn' => j \notin torn \/ req[q].new.sid
    BY <1>0, <1>5 DEF Commit, Mended
  <2>2. (j \notin torn' => Agrees(j, req[q].new)) /\ Same(req[q].new, row'[j])
    BY <1>0, <1>5, <2>1, <2>4, CommitWrites DEF Planned
  <2>3. j \notin torn' => Agrees(j, row[j])'
    BY <2>1, <2>2 DEF Agrees, Same
  <2> QED BY <2>1, <2>3, EndFacts
<1>6. ~ ApplyToken(q)
  BY <1>0 DEF ApplyToken
<1>7. CASE StatementFails(q)
  <2>1. End(q) /\ row' = row /\ entry' = entry
    BY <1>7 DEF StatementFails
  <2>2. CASE req[q].stage = "commit"
    <3>1. j \in torn'
      BY <1>0, <1>7, <2>2 DEF StatementFails
    <3> QED BY <2>1, <3>1, EndFacts
  <2>3. CASE req[q].stage = "load" /\ req[q].body.op # "create"
    <3>1. torn' = torn /\ unscheduled' = unscheduled
      BY <1>7, <2>3 DEF StatementFails
    <3>2. j \notin torn => Agrees(j, row[j])
      BY <1>0, <2>3 DEF Planned
    <3> QED BY <2>1, <3>1, <3>2, EndFacts DEF Agrees
  <2>4. CASE req[q].stage = "load" /\ req[q].body.op = "create"
    <3>1. entry[j] = None /\ row[j].status \in {"absent", "active"}
      BY <1>0, <2>4 DEF Planned
    <3>2. row[j].status = "active" => j \in unscheduled'
      BY <1>0, <1>7, <2>4 DEF StatementFails, NoRow
    <3> QED BY <2>1, <3>1, <3>2, EndFacts DEF Agrees
  <2> QED BY <1>7, <2>2, <2>3, <2>4 DEF StatementFails
<1> QED BY <1>1, <1>2, <1>3, <1>4, <1>5, <1>6, <1>7 DEF Handle

LEMMA ScheduleStep == IndInv /\ [Next]_vars => ScheduleKept'
<1> SUFFICES ASSUME IndInv, [Next]_vars, NEW j \in Job \ overlapped'
             PROVE  /\ PlansOf(j)' = {} /\ j \notin torn' => Agrees(j, row[j])'
                    /\ \A r \in PlansOf(j)' : Planned(j, req[r])'
  BY DEF ScheduleKept
<1> USE DEF IndInv
<1>1. ASSUME NEW q \in Request, NEW i \in Job, NEW b \in Body, Begin(q, i, b)
      PROVE  /\ PlansOf(j)' = {} /\ j \notin torn' => Agrees(j, row[j])'
             /\ \A r \in PlansOf(j)' : Planned(j, req[r])'
  <2>1. /\ j \notin overlapped /\ row' = row /\ entry' = entry /\ unscheduled' = unscheduled
        /\ torn' = torn
        /\ PlansOf(j) \subseteq PlansOf(j)' /\ PlansOf(j)' \subseteq PlansOf(j) \cup {q}
        /\ \A r \in PlansOf(j) : req'[r] = req[r]
        /\ q \in PlansOf(j)' => i = j /\ b.op # "regenerate"
    <3>1. /\ j \notin overlapped /\ row' = row /\ entry' = entry /\ unscheduled' = unscheduled
          /\ torn' = torn
      BY <1>1 DEF Begin
    <3>2. /\ req'[q].stage = "load" /\ req'[q].job = i /\ req'[q].body = b /\ q \notin InFlight
          /\ \A x \in Request \ {q} : req'[x] = req[x]
      BY <1>1, BeginFacts
    <3> QED BY <3>1, <3>2 DEF PlansOf
  <2>2. ASSUME q \in PlansOf(j)' PROVE Planned(j, req[q])'
    <3>1. i = j /\ PlansOf(j) = {}
      BY <1>1, <2>1, <2>2 DEF Begin, Overlaps, PlansOf
    <3>2. j \notin torn => Agrees(j, row[j])
      BY <2>1, <3>1 DEF ScheduleKept
    <3>3. b.op = "create" => row[j] = NoRow
      BY <1>1, <3>1 DEF Begin
    <3>4. b.op = "create" => entry[j] = None /\ row[j].status = "absent" /\ j \notin torn
      BY <3>2, <3>3 DEF TornHasRow, Agrees, NoRow
    <3>5. req'[q].stage = "load" /\ req'[q].body = b
      BY <1>1, BeginFacts
    <3> QED BY <2>1, <3>2, <3>4, <3>5 DEF Planned, Agrees
  <2>3. ASSUME NEW r \in PlansOf(j) PROVE Planned(j, req[r])'
    BY <2>1, <2>3 DEF ScheduleKept, Planned, Agrees
  <2>4. PlansOf(j) = {} /\ j \notin torn' => Agrees(j, row[j])'
    BY <2>1 DEF ScheduleKept, Agrees
  <2> QED BY <2>1, <2>2, <2>3, <2>4
<1>2. ASSUME NEW q \in Request, Handle(q)
      PROVE  /\ PlansOf(j)' = {} /\ j \notin torn' => Agrees(j, row[j])'
             /\ \A r \in PlansOf(j)' : Planned(j, req[r])'
  <2>1. Goes(q) /\ j \notin overlapped
    BY <1>2, HandleGoes DEF Goes
  <2>2. CASE q \in PlansOf(j)
    <3>1. PlansOf(j) = {q}
      BY <2>1, <2>2 DEF Alone
    <3>2. (req'[q] = Idle => PlansOf(j)' = {}) /\ (req'[q] # Idle => PlansOf(j)' = {q})
      BY <2>1, <3>1, GoesFacts, ColumnsFacts DEF PlansOf
    <3> QED BY <1>2, <2>1, <2>2, <3>2, PlannedStep
  <2>3. CASE q \notin PlansOf(j)
    <3>1. /\ Same(row[j], row'[j]) /\ entry'[j] = entry[j]
          /\ j \in unscheduled' <=> j \in unscheduled
          /\ j \in torn' <=> j \in torn
      BY <1>2, <2>3, OthersKeep
    <3>5. PlansOf(j)' \subseteq PlansOf(j) /\ PlansOf(j) \subseteq PlansOf(j)' \cup {q}
      BY <2>1, GoesFacts, Zenon
    <3>2. PlansOf(j)' = PlansOf(j)
      BY <2>3, <3>5, Zenon
    <3>3. ASSUME NEW r \in PlansOf(j) PROVE Planned(j, req[r])'
      <4>1. req'[r] = req[r] /\ Planned(j, req[r])
        BY <2>1, <2>3 DEF Goes, PlansOf, ScheduleKept
      <4> QED BY <3>1, <4>1 DEF Planned, Agrees, Same
    <3>4. PlansOf(j) = {} /\ j \notin torn' => Agrees(j, row[j])'
      BY <2>1, <3>1 DEF ScheduleKept, Agrees, Same
    <3> QED BY <3>2, <3>3, <3>4
  <2> QED BY <2>2, <2>3
<1>3. ASSUME NEW i \in Job, Expire(i)
      PROVE  /\ PlansOf(j)' = {} /\ j \notin torn' => Agrees(j, row[j])'
             /\ \A r \in PlansOf(j)' : Planned(j, req[r])'
  <2>1. /\ req' = req /\ row' = row /\ overlapped' = overlapped /\ PlansOf(j)' = PlansOf(j)
        /\ torn' = torn
    BY <1>3 DEF Expire, PlansOf
  <2>2. CASE i = j
    <3>1. entry'[j] = None /\ j \in unscheduled'
      BY <1>3, <2>2 DEF Expire, TypeOK
    <3> QED BY <2>1, <3>1 DEF ScheduleKept, Planned, Agrees
  <2>3. CASE i # j
    <3>1. entry'[j] = entry[j] /\ (j \in unscheduled' <=> j \in unscheduled)
      BY <1>3, <2>3 DEF Expire, TypeOK
    <3> QED BY <2>1, <3>1 DEF ScheduleKept, Planned, Agrees
  <2> QED BY <2>2, <2>3
<1>4. ASSUME Restart
      PROVE  /\ PlansOf(j)' = {} /\ j \notin torn' => Agrees(j, row[j])'
             /\ \A r \in PlansOf(j)' : Planned(j, req[r])'
  <2>1. PlansOf(j)' = {}
    BY <1>4, ColumnsFacts DEF Restart, PlansOf
  <2>2. CASE row[j].status = "active" /\ row[j].trigger \in GoodTrigger
    <3>1. row[j] \in Columns
      BY <2>2 DEF TypeOK, NoRow
    <3>2. entry'[j] = row[j].trigger /\ row'[j] = [row[j] EXCEPT !.sid = TRUE]
      BY <1>4, <2>2 DEF Restart
    <3>3. row'[j].status = "active" /\ row'[j].sid /\ row'[j].trigger = row[j].trigger
      BY <2>2, <3>1, <3>2 DEF Columns
    <3> QED BY <2>1, <2>2, <3>2, <3>3, TriggerAssumption DEF Agrees
  <2>3. CASE ~(row[j].status = "active" /\ row[j].trigger \in GoodTrigger)
    <3>1. entry'[j] = None /\ row'[j] = row[j] /\ (row[j].status = "active" => j \in unscheduled')
      BY <1>4, <2>3 DEF Restart
    <3> QED BY <2>1, <3>1 DEF Agrees
  <2> QED BY <2>2, <2>3
<1>5. CASE UNCHANGED vars
  BY <1>5 DEF vars, PlansOf, ScheduleKept, Planned, Agrees
<1> QED BY <1>1, <1>2, <1>3, <1>4, <1>5 DEF Next

LEMMA IdKeptStep == IndInv /\ [Next]_vars => IdKept'
<1> SUFFICES ASSUME IndInv, [Next]_vars, NEW j \in Job \ torn', entry'[j] # None
             PROVE  row'[j].sid \/ \E r \in PlansOf(j)' : req'[r].stage = "commit" /\ req'[r].new.sid
  BY DEF IdKept
<1> USE DEF IndInv
<1>0. row[j].sid => row'[j].sid
  BY IdsStay
<1>1. ASSUME NEW q \in Request, NEW i \in Job, NEW b \in Body, Begin(q, i, b)
      PROVE  row'[j].sid \/ \E r \in PlansOf(j)' : req'[r].stage = "commit" /\ req'[r].new.sid
  <2>1. entry' = entry /\ torn' = torn /\ \A x \in PlansOf(j) : x \in PlansOf(j)' /\ req'[x] = req[x]
    BY <1>1, BeginFacts DEF Begin, PlansOf
  <2> QED BY <1>0, <2>1 DEF IdKept
<1>2. ASSUME NEW q \in Request, Handle(q)
      PROVE  row'[j].sid \/ \E r \in PlansOf(j)' : req'[r].stage = "commit" /\ req'[r].new.sid
  <2>1. Goes(q)
    BY <1>2, HandleGoes
  <2>4. CASE j \in torn
    <3>1. Commit(q) /\ req[q].job = j /\ req[q].new.sid
      BY <1>2, <2>4 DEF Handle, Insert, Load, Apply, ApplyDelete, ApplyToken, Commit, Mended, StatementFails
    <3>2. req[q].old.sid => row[j].sid
      BY <3>1 DEF Commit, CopyShape
    <3>3. req[q].old.sid \in BOOLEAN /\ req[q].new.sid \in BOOLEAN
      BY <3>1, CommitFacts DEF Columns
    <3>4. row'[j].sid = IF req[q].new.sid # req[q].old.sid THEN req[q].new.sid ELSE row[j].sid
      BY <3>1, CommitFacts
    <3> QED BY <3>1, <3>2, <3>3, <3>4
  <2>2. CASE entry[j] # None /\ j \notin torn
    <3>1. CASE row[j].sid
      BY <1>0, <3>1
    <3>2. ASSUME NEW r \in PlansOf(j), req[r].stage = "commit", req[r].new.sid
          PROVE  row'[j].sid \/ (r \in PlansOf(j)' /\ req'[r].stage = "commit" /\ req'[r].new.sid)
      <4>1. CASE r # q
        BY <2>1, <3>2, <4>1 DEF Goes, PlansOf
      <4>2. CASE r = q
        <5>0. ~ StatementFails(q)
          BY <3>2, <4>2 DEF StatementFails, PlansOf
        <5>1. Commit(q) /\ req[q].job = j
          BY <1>2, <3>2, <4>2, <5>0 DEF Handle, Insert, Load, Apply, ApplyDelete, ApplyToken, PlansOf
        <5>2. req[q].old.sid => row[j].sid
          BY <3>2, <4>2, <5>1 DEF CopyShape, PlansOf
        <5>3. req[q].old.sid \in BOOLEAN /\ req[q].new.sid \in BOOLEAN
          BY <5>1, CommitFacts DEF Columns
        <5>4. row'[j].sid = IF req[q].new.sid # req[q].old.sid THEN req[q].new.sid ELSE row[j].sid
          BY <5>1, CommitFacts
        <5> QED BY <3>2, <4>2, <5>2, <5>3, <5>4
      <4> QED BY <4>1, <4>2
    <3> QED BY <2>2, <3>1, <3>2 DEF IdKept
  <2>3. CASE entry[j] = None
    <3>1. Apply(q)
      BY <1>2, <2>3 DEF Handle, Insert, Load, ApplyDelete, ApplyToken, Commit, StatementFails, Removed, TypeOK
    <3>2. PICK new \in Columns, removed \in GoodTrigger \cup {None} :
           /\ Reschedule(q, new, removed) /\ req[q].stage = "apply" /\ q \in InFlight
           /\ req[q].body.op \in {"create", "update"}
           /\ req[q].body.op = "create" => removed = entry[req[q].job]
           /\ req[q].body.op = "update" => removed = Removed(req[q])
      BY <3>1, ApplyFacts
    <3>3. req[q].job = j
      BY <2>3, <3>2, RescheduleFacts
    <3>4. removed = None
      BY <2>3, <3>2, <3>3 DEF Removed
    <3>5. Keep(q, [new EXCEPT !.sid = TRUE]) /\ [new EXCEPT !.sid = TRUE] \in Columns
      BY <3>2, <3>3, <3>4, RescheduleFacts
    <3>6. [new EXCEPT !.sid = TRUE].sid
      BY DEF Columns
    <3>7. /\ req'[q].stage = "commit" /\ req'[q].new.sid
          /\ req'[q].job = j /\ req'[q].body = req[q].body
      BY <3>2, <3>3, <3>5, <3>6, KeepFacts
    <3>8. q \in PlansOf(j)'
      BY <3>2, <3>7 DEF PlansOf
    <3> QED BY <3>7, <3>8
  <2> QED BY <2>2, <2>3, <2>4
<1>3. ASSUME NEW i \in Job, Expire(i)
      PROVE  row'[j].sid \/ \E r \in PlansOf(j)' : req'[r].stage = "commit" /\ req'[r].new.sid
  <2>1. entry[j] # None /\ torn' = torn /\ req' = req /\ row' = row /\ PlansOf(j)' = PlansOf(j)
    BY <1>3 DEF Expire, TypeOK, PlansOf
  <2> QED BY <2>1 DEF IdKept
<1>4. ASSUME Restart PROVE row'[j].sid
  <2>1. row[j].status = "active" /\ row'[j] = [row[j] EXCEPT !.sid = TRUE]
    BY <1>4 DEF Restart
  <2>2. row[j] \in Columns
    BY <2>1 DEF TypeOK, NoRow
  <2> QED BY <2>1, <2>2 DEF Columns
<1>5. CASE UNCHANGED vars
  BY <1>5 DEF vars, PlansOf, IdKept
<1> QED BY <1>1, <1>2, <1>3, <1>4, <1>5 DEF Next

LEMMA Invariance == Spec => []IndInv
<1>1. IndInv /\ [Next]_vars => IndInv'
  BY TypeStep, AloneStep, RowFirstStep, TornStep, CopyShapeStep, CopyCurrentStep, ScheduleStep, IdKeptStep,
     TokensStep, ToldStep DEF IndInv
<1> QED BY Initial, <1>1, PTL DEF Spec

--------------------------------------------------------------------------------
\* Requests, table and scheduler keep their types.
THEOREM TypeCorrect == Spec => []TypeOK
<1>1. IndInv => TypeOK
  BY DEF IndInv
<1> QED BY Invariance, <1>1, PTL

\* APScheduler and the jobs table agree on every settled job, whatever else goes on,
\* unless its requests overlapped or a commit failed after the schedule was changed
\* and nothing has mended that yet (jobs.py:204-213, 246-257; main.py:110-118).
THEOREM StoresAlwaysAgree == Spec => []StoresAgree
<1>1. IndInv => StoresAgree
  <2> SUFFICES ASSUME IndInv, NEW j \in Job, Settled(j), j \notin overlapped \cup torn
               PROVE  Agrees(j, row[j])
    BY DEF StoresAgree, Agrees
  <2>1. PlansOf(j) = {}
    BY DEF Settled, PlansOf
  <2> QED BY <2>1 DEF IndInv, ScheduleKept
<1> QED BY Invariance, <1>1, PTL

\* Every entry of a settled job can be found by the id in its row, also after an
\* overlap (jobs.py:206 and 246); only a commit that failed can put one out of reach,
\* and only until the id is committed.
THEOREM EntriesInReach == Spec => []EntryHasId
<1>1. IndInv => EntryHasId
  <2> SUFFICES ASSUME IndInv, NEW j \in Job \ torn, entry[j] # None, Settled(j)
               PROVE  row[j].sid
    BY DEF EntryHasId
  <2>1. PlansOf(j) = {}
    BY DEF Settled, PlansOf
  <2> QED BY <2>1 DEF IndInv, IdKept
<1> QED BY Invariance, <1>1, PTL

\* The webhook token of a job is the one that a client was told last, however the
\* requests for it overlap (jobs.py:342).
THEOREM TokensAsTold == Spec => []TokenAsTold
<1>1. IndInv => TokenAsTold
  BY DEF IndInv
<1> QED BY Invariance, <1>1, PTL

\* A deleted job whose requests did not overlap is never revived (jobs.py:257).
THEOREM DeletedStays == Spec => DeleteIsFinal
<1>1. ASSUME IndInv, [Next]_vars, NEW j \in Job \ overlapped, row[j].status = "deleted"
      PROVE  row'[j].status = "deleted"
  <2> USE DEF IndInv
  <2>1. ASSUME NEW q \in Request, Handle(q) PROVE row'[j].status = "deleted"
    <3>1. CASE q \notin PlansOf(j)
      BY <1>1, <2>1, <3>1, OthersKeep DEF Same
    <3>2. CASE q \in PlansOf(j) /\ ~ Commit(q)
      BY <1>1, <2>1, <3>2 DEF Handle, Insert, Load, Apply, ApplyDelete, ApplyToken, StatementFails, PlansOf, NoRow
    <3>3. CASE q \in PlansOf(j) /\ Commit(q)
      <4>1. q \in InFlight /\ req[q].stage = "commit"
        BY <3>3 DEF Commit, PlansOf
      <4>2. req[q].old.status = "deleted"
        BY <1>1, <3>3, <4>1 DEF CopyCurrent, Same
      <4>3. req[q].new.status = "deleted"
        BY <1>1, <4>1, <4>2 DEF CopyShape
      <4> QED BY <1>1, <3>3, <4>3, CommitWrites DEF Same
    <3> QED BY <3>1, <3>2, <3>3
  <2>2. ASSUME Restart PROVE row'[j].status = "deleted"
    BY <1>1, <2>2 DEF Restart
  <2>3. (\E r \in Request, i \in Job, b \in Body : Begin(r, i, b))
        \/ (\E i \in Job : Expire(i)) \/ UNCHANGED vars => row' = row
    BY DEF Begin, Expire, vars
  <2> QED BY <1>1, <2>1, <2>2, <2>3 DEF Next
<1>2. IndInv /\ [Next]_vars =>
        [\A j \in Job : row[j].status = "deleted" /\ j \notin overlapped
           => row'[j].status = "deleted"]_vars
  BY <1>1
<1> QED BY Invariance, <1>2, PTL DEF Spec, DeleteIsFinal
================================================================================
