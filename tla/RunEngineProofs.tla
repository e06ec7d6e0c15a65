---------------------------- MODULE RunEngineProofs ----------------------------
(***************************************************************************)
(* The safety of the execution engine, for every set of jobs and tasks,    *)
(* every limit and every bound.                                            *)
(***************************************************************************)
EXTENDS RunEngineProps, TLAPS, FiniteSetTheorems, SequenceTheorems

USE DEF At, Goto, Spawn, Ledger!NewRow, Ledger!IsOpen, Ledger!FinalStatus

IndInv == TypeOK /\ StageShape /\ QueueExact /\ SlotAccounting /\ OwnRow

--------------------------------------------------------------------------------
(* Sequences.                                                              *)

\* Appending keeps the elements and adds one at the end.
LEMMA AppendFacts ==
  ASSUME NEW S, NEW s \in Seq(S), NEW e \in S
  PROVE  /\ Append(s, e) \in Seq(S)
         /\ Len(Append(s, e)) = Len(s) + 1
         /\ DOMAIN Append(s, e) = 1 .. Len(s) + 1
         /\ DOMAIN s = 1 .. Len(s)
         /\ Append(s, e)[Len(s) + 1] = e
         /\ \A i \in 1 .. Len(s) : Append(s, e)[i] = s[i]
  OBVIOUS

\* Removing one place of a sequence leaves a sequence of the other elements.
LEMMA WithoutFacts ==
  ASSUME NEW S, NEW s \in Seq(S), NEW i \in DOMAIN s
  PROVE  /\ Without(s, i) \in Seq(S)
         /\ DOMAIN Without(s, i) = 1 .. Len(s) - 1
         /\ \A k \in 1 .. Len(s) - 1 :
              Without(s, i)[k] = IF k < i THEN s[k] ELSE s[k + 1]
<1>1. Len(s) \in Nat /\ DOMAIN s = 1 .. Len(s) /\ Len(s) - 1 \in Nat
  BY LenProperties
<1>2. Without(s, i) \in [1 .. Len(s) - 1 -> S]
  BY <1>1, ElementOfSeq DEF Without
<1>3. Without(s, i) \in Seq(S)
  BY <1>1, <1>2
<1> QED
  BY <1>2, <1>3 DEF Without

--------------------------------------------------------------------------------
\* A row in the shape the table has it, closed with a known status.
LEMMA CloseType ==
  ASSUME TypeOK, NEW r \in DOMAIN history, NEW s \in Ledger!RunStatus,
         WriteResult(r, s)
  PROVE  /\ history' \in Seq(Ledger!Row)
         /\ DOMAIN history' = DOMAIN history
         /\ \A q \in DOMAIN history : q # r => history'[q] = history[q]
         /\ history'[r].job = history[r].job
<1>1. r \in 1 .. Len(history) /\ history \in Seq(Ledger!Row)
  BY LenProperties DEF TypeOK
<1>2. history[r] \in Ledger!Row
  BY <1>1, ElementOfSeq
<1> DEFINE row == [history[r] EXCEPT !.status = s, !.finished = TRUE]
<1>3. row \in Ledger!Row /\ row.job = history[r].job
  BY <1>2 DEF Ledger!Row
<1>4. history' = [history EXCEPT ![r] = row]
  BY <1>2 DEF WriteResult, Ledger!Row
<1>5. history' \in Seq(Ledger!Row)
  BY <1>1, <1>3, <1>4, ExceptSeq
<1> QED
  BY <1>1, <1>3, <1>4, <1>5

--------------------------------------------------------------------------------
(* Type correctness.                                                       *)

\* A task that owns an open row can close it with the status it has in memory,
\* which is what Persist and the cancelled commit do.
LEMMA OwnedRow ==
  ASSUME TypeOK, OwnRow, NEW t \in Task, pc[t] \in Owning
  PROVE  runOf[t] \in DOMAIN history /\ outcome[t] \in Ledger!RunStatus
  BY DEF TypeOK, OwnRow

\* The row an insert appends is a row.
LEMMA OpenType ==
  ASSUME TypeOK, NEW j \in Job, AddRow(j)
  PROVE  /\ history' \in Seq(Ledger!Row)
         /\ Len(history') = Len(history) + 1
         /\ DOMAIN history = 1 .. Len(history)
         /\ DOMAIN history' = 1 .. Len(history) + 1
         /\ history'[Len(history) + 1] = Ledger!NewRow(j)
         /\ \A q \in DOMAIN history : history'[q] = history[q]
<1>1. Ledger!NewRow(j) \in Ledger!Row
  BY DEF Ledger!Row, Ledger!RunStatus
<1>2. history \in Seq(Ledger!Row) /\ history' = Append(history, Ledger!NewRow(j))
  BY DEF TypeOK, AddRow
<1> HIDE DEF Ledger!NewRow
<1> QED
  BY <1>1, <1>2, AppendFacts

\* Leaving keeps the types of everything it changes.
LEMMA LeaveType ==
  ASSUME TypeOK, NEW t \in Task, Leave(t)
  PROVE  /\ pc' \in [Task -> Stage]
         /\ jobOf' \in [Task -> Job \cup {NoJob}]
         /\ origin' \in [Task -> Origin]
         /\ runOf' \in [Task -> Nat]
         /\ outcome' \in [Task -> Ledger!RunStatus]
         /\ permits' \in Nat
         /\ waiters' \in Seq(Task)
         /\ cancelled' \in SUBSET Task
<1>1. CASE t \in Holders /\ waiters # << >>
  <2>1. Head(waiters) \in Task /\ Tail(waiters) \in Seq(Task)
    BY <1>1, HeadTailProperties DEF TypeOK
  <2>2. /\ pc' = [pc EXCEPT ![t] = "idle", ![Head(waiters)] = "load"]
        /\ waiters' = Tail(waiters) /\ permits' = permits
    BY <1>1 DEF Leave, Release
  <2>3. pc' \in [Task -> Stage]
    BY <2>1, <2>2 DEF TypeOK, Stage, Guarded
  <2> QED
    BY <2>1, <2>2, <2>3 DEF TypeOK, Leave, Forget, Origin, Ledger!RunStatus
<1>2. CASE ~(t \in Holders /\ waiters # << >>)
  <2>1. /\ pc' = [pc EXCEPT ![t] = "idle"]
        /\ waiters' = waiters /\ permits' \in {permits, permits + 1}
    BY <1>2 DEF Leave, Release, semVars
  <2> QED
    BY <2>1 DEF TypeOK, Leave, Forget, Origin, Stage, Ledger!RunStatus
<1> QED
  BY <1>1, <1>2

LEMMA InitType == Init => TypeOK
  BY EmptySeq, LimitAssumption
     DEF Init, TypeOK, JobStatus, Stage, Origin, Phase, Ledger!RunStatus

LEMMA TypeStep ==
  ASSUME TypeOK, StageShape, OwnRow, [Next]_vars
  PROVE  TypeOK'
<1> USE DEF TypeOK, Stage, Guarded, taskVars, semVars
<1>1. ASSUME NEW t \in Task, NEW j \in Job, Fire(t, j) \/ TriggerNow(t, j) \/ StartNode(t, j)
      PROVE  TypeOK'
  BY <1>1 DEF Fire, TriggerNow, StartNode, Origin
<1>2. ASSUME NEW j \in Job, NEW s \in JobStatus, SetStatus(j, s)
      PROVE  TypeOK'
  BY <1>2 DEF SetStatus
<1>3. CASE Shutdown \/ CloseLoop \/ Restart
  BY <1>3 DEF Shutdown, CloseLoop, Restart, Phase, Live
<1>4. CASE Exit \/ Crash
  <2>1. LoseMemory /\ stops' \in Nat
    BY <1>4 DEF Exit, Crash
  <2>2. permits' \in Nat /\ waiters' \in Seq(Task)
    BY <2>1, EmptySeq, LimitAssumption DEF LoseMemory
  <2> QED
    BY <2>1, <2>2 DEF LoseMemory, Phase, Origin, Ledger!RunStatus
<1>5. ASSUME NEW t \in Task, Acquire(t)
      PROVE  TypeOK'
  <2>1. Append(waiters, t) \in Seq(Task)
    BY AppendFacts
  <2>2. permits' \in Nat
    BY <1>5 DEF Acquire
  <2>3. waiters' \in Seq(Task)
    BY <1>5, <2>1 DEF Acquire
  <2>4. pc' \in [Task -> Stage]
    BY <1>5 DEF Acquire
  <2> QED
    BY <1>5, <2>2, <2>3, <2>4 DEF Acquire
<1>6. ASSUME NEW t \in Task, Load(t)
      PROVE  TypeOK'
  <2>1. CASE Leave(t)
    BY <1>6, <2>1, LeaveType DEF Load
  <2>2. CASE Goto(t, "insert") /\ UNCHANGED <<runOf, outcome>>
    BY <1>6, <2>2 DEF Load
  <2> QED BY <1>6, <2>1, <2>2 DEF Load
<1>7. ASSUME NEW t \in Task, Insert(t)
      PROVE  TypeOK'
  <2>1. jobOf[t] \in Job
    BY <1>7 DEF Insert, StageShape
  <2>2. history' \in Seq(Ledger!Row) /\ Len(history') \in Nat
    BY <1>7, <2>1, OpenType, LenProperties DEF Insert
  <2> QED
    BY <1>7, <2>2 DEF Insert
<1>8. ASSUME NEW t \in Task, Execute(t)
      PROVE  TypeOK'
  BY <1>8 DEF Execute, AfterExec, Outcomes, Ledger!RunStatus
<1>9. ASSUME NEW t \in Task, Cleanup(t)
      PROVE  TypeOK'
  BY <1>9 DEF Cleanup
<1>10. ASSUME NEW t \in Task, CleanupRaises(t) \/ Alert(t)
       PROVE  TypeOK'
  BY <1>10, LeaveType DEF CleanupRaises, Alert
<1>11. ASSUME NEW t \in Task, Persist(t)
       PROVE  TypeOK'
  <2>1. history' \in Seq(Ledger!Row)
    BY <1>11, OwnedRow, CloseType DEF Persist, Owning
  <2> QED
    BY <1>11, <2>1 DEF Persist
<1>12. ASSUME NEW t \in Task, CancelWaiter(t)
       PROVE  TypeOK'
  <2>1. waiters' \in Seq(Task)
    BY <1>12, WithoutFacts DEF CancelWaiter
  <2> QED
    BY <1>12, <2>1 DEF CancelWaiter, Forget, Origin, Ledger!RunStatus
<1>13. ASSUME NEW t \in Task, CancelExec(t)
       PROVE  TypeOK'
  BY <1>13 DEF CancelExec, AfterExec
<1>14. ASSUME NEW t \in Task, CancelElsewhere(t) \/ DbFails(t)
       PROVE  TypeOK'
  <2>1. history' \in Seq(Ledger!Row)
    <3>1. CASE UNCHANGED history
      BY <3>1
    <3>2. CASE pc[t] = "insert" /\ AddRow(jobOf[t])
      BY <3>2, OpenType DEF StageShape
    <3>3. CASE pc[t] = "persist" /\ WriteResult(runOf[t], outcome[t])
      BY <3>3, OwnedRow, CloseType DEF Owning
    <3> QED BY <1>14, <3>1, <3>2, <3>3 DEF CancelElsewhere, DbFails, CommitMayStand
  <2> QED
    BY <1>14, <2>1, LeaveType DEF CancelElsewhere, DbFails
<1>15. CASE UNCHANGED vars
  BY <1>15 DEF vars
<1> QED
  BY <1>1, <1>2, <1>3, <1>4, <1>5, <1>6, <1>7, <1>8, <1>9, <1>10, <1>11, <1>12,
     <1>13, <1>14, <1>15 DEF Next, Environment, Step, Cancel

--------------------------------------------------------------------------------
(* The queue of the semaphore.                                             *)

\* The head of the queue is a waiting task.
LEMMA HeadWaits ==
  ASSUME TypeOK, QueueExact, waiters # << >>
  PROVE  /\ Head(waiters) \in Task /\ pc[Head(waiters)] = "waiting"
         /\ 1 \in DOMAIN waiters /\ Head(waiters) = waiters[1]
<1>1. Len(waiters) \in Nat \ {0} /\ DOMAIN waiters = 1 .. Len(waiters)
  BY EmptySeq, LenProperties DEF TypeOK
<1>2. Head(waiters) \in Task /\ Head(waiters) = waiters[1]
  BY <1>1, HeadTailProperties DEF TypeOK
<1> QED
  BY <1>1, <1>2 DEF QueueExact

\* What leaving does to every task: it blanks its own slot, and at most moves the
\* oldest waiter into the guarded region.
LEMMA LeaveEffect ==
  ASSUME TypeOK, QueueExact, NEW t \in Task, pc[t] # "waiting", Leave(t)
  PROVE  /\ pc'[t] = "idle" /\ jobOf'[t] = NoJob /\ origin'[t] = "none" /\ runOf'[t] = 0
         /\ \A u \in Task : u # t =>
              /\ jobOf'[u] = jobOf[u] /\ origin'[u] = origin[u]
              /\ runOf'[u] = runOf[u]
              /\ pc'[u] = pc[u] \/ (pc[u] = "waiting" /\ pc'[u] = "load")
<1>1. CASE t \in Holders /\ waiters # << >>
  <2>1. pc' = [pc EXCEPT ![t] = "idle", ![Head(waiters)] = "load"]
    BY <1>1 DEF Leave, Release
  <2> QED
    BY <2>1, <1>1, HeadWaits DEF TypeOK, Leave, Forget
<1>2. CASE ~(t \in Holders /\ waiters # << >>)
  <2>1. pc' = [pc EXCEPT ![t] = "idle"]
    BY <1>2 DEF Leave, Release
  <2> QED
    BY <2>1 DEF TypeOK, Leave, Forget
<1> QED
  BY <1>1, <1>2

\* Leaving keeps the queue exact: whoever is handed a permit is taken out of it.
LEMMA LeaveQueue ==
  ASSUME TypeOK, QueueExact, NEW t \in Task, pc[t] # "waiting", Leave(t)
  PROVE  QueueExact'
<1>1. CASE t \in Holders /\ waiters # << >>
  <2>1. /\ pc' = [pc EXCEPT ![t] = "idle", ![Head(waiters)] = "load"]
        /\ waiters' = Tail(waiters)
    BY <1>1 DEF Leave, Release
  <2>2. Len(waiters) \in Nat \ {0} /\ DOMAIN waiters = 1 .. Len(waiters)
    BY <1>1, EmptySeq, LenProperties DEF TypeOK
  <2>3. /\ DOMAIN waiters' = 1 .. Len(waiters) - 1
        /\ \A i \in 1 .. Len(waiters) - 1 : waiters'[i] = waiters[i + 1]
    BY <1>1, <2>1, HeadTailProperties, LenProperties DEF TypeOK
  <2>4. /\ Head(waiters) \in Task /\ pc[Head(waiters)] = "waiting"
        /\ Head(waiters) = waiters[1]
    BY <1>1, HeadWaits
  <2>5. \A i, k \in DOMAIN waiters' : waiters'[i] = waiters'[k] => i = k
    <3> SUFFICES ASSUME NEW i \in DOMAIN waiters', NEW k \in DOMAIN waiters',
                        waiters'[i] = waiters'[k]
                 PROVE  i = k
      OBVIOUS
    <3>1. i + 1 \in DOMAIN waiters /\ k + 1 \in DOMAIN waiters /\ waiters[i + 1] = waiters[k + 1]
      BY <2>2, <2>3
    <3>2. i + 1 = k + 1
      BY <3>1 DEF QueueExact
    <3> QED
      BY <2>3, <3>2
  <2>6. \A u \in Task : pc'[u] = "waiting" <=> pc[u] = "waiting" /\ u # waiters[1]
    BY <2>1, <2>4 DEF TypeOK
  <2>7. ASSUME NEW u \in Task
        PROVE  (\E i \in DOMAIN waiters' : waiters'[i] = u)
                 <=> (\E i \in DOMAIN waiters : waiters[i] = u) /\ u # waiters[1]
    <3>1. ASSUME NEW i \in DOMAIN waiters', waiters'[i] = u
          PROVE  (\E k \in DOMAIN waiters : waiters[k] = u) /\ u # waiters[1]
      <4>1. i + 1 \in DOMAIN waiters /\ waiters[i + 1] = u /\ i + 1 # 1 /\ 1 \in DOMAIN waiters
        BY <2>2, <2>3, <3>1
      <4> QED BY <4>1 DEF QueueExact
    <3>2. ASSUME NEW i \in DOMAIN waiters, waiters[i] = u, u # waiters[1]
          PROVE  \E k \in DOMAIN waiters' : waiters'[k] = u
      <4>1. i - 1 \in DOMAIN waiters' /\ waiters'[i - 1] = u
        BY <2>2, <2>3, <3>2
      <4> QED BY <4>1
    <3> QED BY <3>1, <3>2
  <2> QED
    BY <2>5, <2>6, <2>7 DEF QueueExact
<1>2. CASE ~(t \in Holders /\ waiters # << >>)
  <2>1. pc' = [pc EXCEPT ![t] = "idle"] /\ waiters' = waiters
    BY <1>2 DEF Leave, Release, semVars
  <2> QED
    BY <2>1 DEF TypeOK, QueueExact
<1> QED
  BY <1>1, <1>2

\* A step that neither moves a task into or out of "waiting" nor touches the
\* queue keeps it exact.
LEMMA QueueUntouched ==
  ASSUME QueueExact, UNCHANGED waiters,
         \A t \in Task : pc'[t] = "waiting" <=> pc[t] = "waiting"
  PROVE  QueueExact'
  BY DEF QueueExact

LEMMA QueueStep ==
  ASSUME TypeOK, QueueExact, [Next]_vars
  PROVE  QueueExact'
<1> USE DEF taskVars, semVars
<1>1. ASSUME NEW t \in Task, NEW j \in Job, Fire(t, j) \/ TriggerNow(t, j) \/ StartNode(t, j)
      PROVE  QueueExact'
  BY <1>1, QueueUntouched DEF Fire, TriggerNow, StartNode, TypeOK
<1>2. ASSUME NEW j \in Job, NEW s \in JobStatus, SetStatus(j, s)
      PROVE  QueueExact'
  BY <1>2, QueueUntouched DEF SetStatus
<1>3. CASE Shutdown \/ CloseLoop \/ Restart
  BY <1>3, QueueUntouched DEF Shutdown, CloseLoop, Restart
<1>4. CASE Exit \/ Crash
  <2>1. pc' = [t \in Task |-> "idle"] /\ waiters' = << >>
    BY <1>4 DEF Exit, Crash, LoseMemory
  <2>2. DOMAIN waiters' = {}
    BY <2>1
  <2> QED
    BY <2>1, <2>2 DEF QueueExact
<1>5. ASSUME NEW t \in Task, Acquire(t)
      PROVE  QueueExact'
  <2>1. CASE permits > 0 /\ pc' = [pc EXCEPT ![t] = "load"] /\ UNCHANGED waiters
    BY <1>5, <2>1, QueueUntouched DEF Acquire, TypeOK
  <2>2. CASE waiters' = Append(waiters, t) /\ pc' = [pc EXCEPT ![t] = "waiting"]
    <3>1. /\ Len(waiters) \in Nat /\ DOMAIN waiters = 1 .. Len(waiters)
          /\ DOMAIN waiters' = 1 .. Len(waiters) + 1
          /\ waiters'[Len(waiters) + 1] = t
          /\ \A i \in DOMAIN waiters : waiters'[i] = waiters[i]
      BY <2>2, AppendFacts, LenProperties DEF TypeOK
    <3>2. \A i \in DOMAIN waiters : waiters[i] # t
      BY <1>5 DEF Acquire, QueueExact
    <3>3. \A i, k \in DOMAIN waiters' : waiters'[i] = waiters'[k] => i = k
      BY <3>1, <3>2 DEF QueueExact
    <3>4. \A u \in Task : (\E i \in DOMAIN waiters' : waiters'[i] = u)
                            <=> u = t \/ \E i \in DOMAIN waiters : waiters[i] = u
      BY <3>1
    <3>5. \A u \in Task : pc'[u] = "waiting" <=> u = t \/ pc[u] = "waiting"
      BY <2>2 DEF TypeOK
    <3> QED
      BY <3>3, <3>4, <3>5 DEF QueueExact
  <2> QED BY <1>5, <2>1, <2>2 DEF Acquire
<1>6. ASSUME NEW t \in Task, Load(t)
      PROVE  QueueExact'
  <2>1. CASE Leave(t)
    BY <1>6, <2>1, LeaveQueue DEF Load
  <2>2. CASE Goto(t, "insert")
    BY <1>6, <2>2, QueueUntouched DEF Load, TypeOK
  <2> QED BY <1>6, <2>1, <2>2 DEF Load
<1>7. ASSUME NEW t \in Task, Insert(t) \/ Execute(t) \/ Cleanup(t) \/ Persist(t) \/ CancelExec(t)
      PROVE  QueueExact'
  BY <1>7, QueueUntouched
     DEF Insert, Execute, Cleanup, Persist, CancelExec, AfterExec, TypeOK
<1>8. ASSUME NEW t \in Task, CleanupRaises(t) \/ DbFails(t) \/ Alert(t) \/ CancelElsewhere(t)
      PROVE  QueueExact'
  BY <1>8, LeaveQueue DEF CleanupRaises, DbFails, Alert, CancelElsewhere
<1>9. ASSUME NEW t \in Task, CancelWaiter(t)
      PROVE  QueueExact'
  <2>1. PICK i \in DOMAIN waiters : waiters[i] = t /\ waiters' = Without(waiters, i)
    BY <1>9 DEF CancelWaiter
  <2>2. /\ Len(waiters) \in Nat /\ DOMAIN waiters = 1 .. Len(waiters)
        /\ DOMAIN waiters' = 1 .. Len(waiters) - 1
        /\ \A k \in DOMAIN waiters' :
             waiters'[k] = IF k < i THEN waiters[k] ELSE waiters[k + 1]
    BY <2>1, WithoutFacts, LenProperties DEF TypeOK
  <2>3. \A k, l \in DOMAIN waiters' : waiters'[k] = waiters'[l] => k = l
    BY <2>2 DEF QueueExact
  <2>4. \A u \in Task : pc'[u] = "waiting" <=> pc[u] = "waiting" /\ u # t
    BY <1>9 DEF CancelWaiter, TypeOK
  <2>5. ASSUME NEW u \in Task
        PROVE  (\E k \in DOMAIN waiters' : waiters'[k] = u)
                 <=> (\E k \in DOMAIN waiters : waiters[k] = u) /\ u # t
    <3>1. ASSUME NEW k \in DOMAIN waiters', waiters'[k] = u
          PROVE  (\E l \in DOMAIN waiters : waiters[l] = u) /\ u # t
      <4>1. CASE k < i
        BY <2>1, <2>2, <3>1, <4>1 DEF QueueExact
      <4>2. CASE ~(k < i)
        <5>1. k + 1 \in DOMAIN waiters /\ waiters[k + 1] = u /\ k + 1 # i
          BY <2>2, <3>1, <4>2
        <5> QED BY <2>1, <5>1 DEF QueueExact
      <4> QED BY <4>1, <4>2
    <3>2. ASSUME NEW l \in DOMAIN waiters, waiters[l] = u, u # t
          PROVE  \E k \in DOMAIN waiters' : waiters'[k] = u
      <4>1. CASE l < i
        BY <2>1, <2>2, <3>2, <4>1
      <4>2. CASE l > i
        <5>1. l - 1 \in DOMAIN waiters' /\ waiters'[l - 1] = u
          BY <2>1, <2>2, <3>2, <4>2
        <5> QED BY <5>1
      <4> QED BY <2>1, <2>2, <3>2, <4>1, <4>2
    <3> QED BY <3>1, <3>2
  <2> QED
    BY <2>3, <2>4, <2>5 DEF QueueExact
<1>10. CASE UNCHANGED vars
  BY <1>10, QueueUntouched DEF vars
<1> QED
  BY <1>1, <1>2, <1>3, <1>4, <1>5, <1>6, <1>7, <1>8, <1>9, <1>10
     DEF Next, Environment, Step, Cancel

--------------------------------------------------------------------------------
(* What a task has at each stage, and the rows it owns.                    *)

LEMMA LeaveShape ==
  ASSUME TypeOK, QueueExact, StageShape, NEW t \in Task, pc[t] # "waiting", Leave(t)
  PROVE  StageShape'
<1> SUFFICES ASSUME NEW u \in Task
             PROVE  /\ pc'[u] = "idle" => jobOf'[u] = NoJob /\ origin'[u] = "none"
                    /\ pc'[u] # "idle" => jobOf'[u] \in Job /\ origin'[u] # "none"
                    /\ pc'[u] \notin Owning \cup {"alert"} => runOf'[u] = 0
                    /\ pc'[u] \in {"created", "waiting"} => origin'[u] # "pipeline"
  BY DEF StageShape, Owning
<1>1. CASE u = t
  BY <1>1, LeaveEffect
<1>2. CASE u # t
  BY <1>2, LeaveEffect DEF StageShape, Owning
<1> QED
  BY <1>1, <1>2

LEMMA ShapeStep ==
  ASSUME TypeOK, QueueExact, StageShape, [Next]_vars
  PROVE  StageShape'
<1> USE DEF taskVars, semVars, Owning
<1>1. ASSUME NEW t \in Task, NEW j \in Job, Fire(t, j) \/ TriggerNow(t, j) \/ StartNode(t, j)
      PROVE  StageShape'
  BY <1>1 DEF Fire, TriggerNow, StartNode, TypeOK, StageShape
<1>2. CASE UNCHANGED taskVars
  BY <1>2 DEF StageShape
<1>3. CASE Exit \/ Crash
  BY <1>3 DEF Exit, Crash, LoseMemory, StageShape
<1>4. ASSUME NEW t \in Task, Acquire(t)
      PROVE  StageShape'
  BY <1>4 DEF Acquire, TypeOK, StageShape
<1>5. ASSUME NEW t \in Task, Load(t)
      PROVE  StageShape'
  <2>1. CASE Leave(t)
    BY <1>5, <2>1, LeaveShape DEF Load
  <2>2. CASE Goto(t, "insert") /\ UNCHANGED <<runOf, outcome>>
    BY <1>5, <2>2 DEF Load, TypeOK, StageShape
  <2> QED BY <1>5, <2>1, <2>2 DEF Load
<1>6. ASSUME NEW t \in Task, Insert(t)
      PROVE  StageShape'
  BY <1>6 DEF Insert, TypeOK, StageShape
<1>7. ASSUME NEW t \in Task, Execute(t) \/ Cleanup(t) \/ Persist(t) \/ CancelExec(t)
      PROVE  StageShape'
  <2>1. PICK stage \in Owning \cup {"alert"} : pc' = [pc EXCEPT ![t] = stage]
    BY <1>7 DEF Execute, Cleanup, Persist, CancelExec, AfterExec
  <2>2. pc[t] \in Owning /\ UNCHANGED <<jobOf, origin, runOf>>
    BY <1>7 DEF Execute, Cleanup, Persist, CancelExec
  <2> QED
    BY <2>1, <2>2 DEF TypeOK, StageShape
<1>8. ASSUME NEW t \in Task, CleanupRaises(t) \/ DbFails(t) \/ Alert(t) \/ CancelElsewhere(t)
      PROVE  StageShape'
  BY <1>8, LeaveShape DEF CleanupRaises, DbFails, Alert, CancelElsewhere
<1>9. ASSUME NEW t \in Task, CancelWaiter(t)
      PROVE  StageShape'
  BY <1>9 DEF CancelWaiter, Forget, TypeOK, StageShape
<1> QED
  BY <1>1, <1>2, <1>3, <1>4, <1>5, <1>6, <1>7, <1>8, <1>9
     DEF Next, Environment, Step, Cancel, vars, SetStatus, Shutdown, CloseLoop, Restart

--------------------------------------------------------------------------------
\* A step that keeps the rows of the table, gives no task a new row and lets no
\* task start executing keeps the ownership of rows.
LEMMA OwnKept ==
  ASSUME TypeOK, OwnRow,
         DOMAIN history \subseteq DOMAIN history',
         \A q \in DOMAIN history : history'[q] = history[q],
         \A u \in Task :
           /\ runOf'[u] = runOf[u] \/ runOf'[u] = 0
           /\ pc'[u] \in Owning =>
                pc[u] \in Owning /\ runOf'[u] = runOf[u] /\ jobOf'[u] = jobOf[u]
  PROVE  OwnRow'
<1>1. 0 \notin DOMAIN history
  BY LenProperties DEF TypeOK
<1> QED
  BY <1>1 DEF OwnRow

LEMMA LeaveOwn ==
  ASSUME TypeOK, QueueExact, OwnRow, NEW t \in Task, pc[t] # "waiting", Leave(t),
         DOMAIN history \subseteq DOMAIN history',
         \A q \in DOMAIN history : history'[q] = history[q]
  PROVE  OwnRow'
<1>1. \A u \in Task :
        /\ runOf'[u] = runOf[u] \/ runOf'[u] = 0
        /\ pc'[u] \in Owning =>
             pc[u] \in Owning /\ runOf'[u] = runOf[u] /\ jobOf'[u] = jobOf[u]
  BY LeaveEffect DEF Owning
<1> QED
  BY <1>1, OwnKept

\* Closing one's own row, and owning it no more, disturbs no other owner.
LEMMA OwnClosed ==
  ASSUME TypeOK, OwnRow, NEW t \in Task, pc[t] \in Owning,
         WriteResult(runOf[t], outcome[t]), pc'[t] \notin Owning,
         runOf'[t] = runOf[t] \/ runOf'[t] = 0,
         \A u \in Task : u # t =>
           /\ runOf'[u] = runOf[u] /\ jobOf'[u] = jobOf[u]
           /\ pc'[u] \in Owning => pc[u] \in Owning
  PROVE  OwnRow'
<1>1. 0 \notin DOMAIN history
  BY LenProperties DEF TypeOK
<1>2. runOf[t] \in DOMAIN history /\ outcome[t] \in Ledger!RunStatus
  BY OwnedRow
<1>3. /\ DOMAIN history' = DOMAIN history
      /\ \A q \in DOMAIN history : q # runOf[t] => history'[q] = history[q]
  BY <1>2, CloseType
<1> SUFFICES ASSUME NEW u \in Task
             PROVE  /\ runOf'[u] # 0 => runOf'[u] \in DOMAIN history'
                    /\ pc'[u] \in Owning =>
                         /\ runOf'[u] \in DOMAIN history'
                         /\ history'[runOf'[u]].job = jobOf'[u]
                         /\ Ledger!IsOpen(history'[runOf'[u]])
                         /\ \A w \in Task : runOf'[w] = runOf'[u] => w = u
  BY DEF OwnRow, Owning
<1>4. CASE u = t
  BY <1>2, <1>3, <1>4
<1>5. CASE u # t /\ pc'[u] \notin Owning
  BY <1>3, <1>5 DEF OwnRow
<1>6. CASE u # t /\ pc'[u] \in Owning
  <2>1. /\ pc[u] \in Owning /\ runOf'[u] = runOf[u] /\ jobOf'[u] = jobOf[u]
        /\ runOf[u] \in DOMAIN history /\ runOf[u] # runOf[t]
    BY <1>6 DEF OwnRow
  <2>2. history'[runOf[u]] = history[runOf[u]]
    BY <1>3, <2>1
  <2>3. \A w \in Task : runOf'[w] = runOf'[u] => w = u
    BY <1>1, <2>1 DEF OwnRow
  <2> QED
    BY <1>3, <2>1, <2>2, <2>3 DEF OwnRow
<1> QED
  BY <1>4, <1>5, <1>6

LEMMA OwnStep ==
  ASSUME TypeOK, QueueExact, StageShape, OwnRow, [Next]_vars
  PROVE  OwnRow'
<1> USE DEF taskVars, semVars
<1>1. ASSUME NEW t \in Task, NEW j \in Job, Fire(t, j) \/ TriggerNow(t, j) \/ StartNode(t, j)
      PROVE  OwnRow'
  BY <1>1, OwnKept DEF Fire, TriggerNow, StartNode, TypeOK, Owning
<1>2. CASE UNCHANGED <<history, taskVars>>
  BY <1>2, OwnKept
<1>3. CASE Exit \/ Crash
  <2>1. /\ history' = history
        /\ pc' = [t \in Task |-> "idle"] /\ runOf' = [t \in Task |-> 0]
    BY <1>3 DEF Exit, Crash, LoseMemory
  <2> QED
    BY <2>1, OwnKept DEF Owning
<1>4. ASSUME NEW t \in Task, Acquire(t)
      PROVE  OwnRow'
  BY <1>4, OwnKept DEF Acquire, TypeOK, Owning
<1>5. ASSUME NEW t \in Task, Load(t)
      PROVE  OwnRow'
  <2>1. CASE Leave(t)
    BY <1>5, <2>1, LeaveOwn DEF Load
  <2>2. CASE Goto(t, "insert") /\ UNCHANGED <<runOf, outcome>>
    BY <1>5, <2>2, OwnKept DEF Load, TypeOK, Owning
  <2> QED BY <1>5, <2>1, <2>2 DEF Load
<1>6. ASSUME NEW t \in Task, Insert(t)
      PROVE  OwnRow'
  <2> DEFINE r == Len(history) + 1
  <2>1. jobOf[t] \in Job /\ AddRow(jobOf[t])
    BY <1>6 DEF Insert, StageShape
  <2>2. /\ Len(history) \in Nat /\ DOMAIN history = 1 .. Len(history)
        /\ DOMAIN history' = 1 .. Len(history) + 1
        /\ history'[r] = Ledger!NewRow(jobOf[t])
        /\ \A q \in DOMAIN history : history'[q] = history[q]
        /\ Len(history') = r
    BY <2>1, OpenType, LenProperties DEF TypeOK
  <2>3. runOf' = [runOf EXCEPT ![t] = r] /\ jobOf' = jobOf /\ pc' = [pc EXCEPT ![t] = "exec"]
    BY <1>6, <2>2 DEF Insert
  <2>4. r \in DOMAIN history' /\ r \notin DOMAIN history /\ r # 0
    BY <2>2
  <2> HIDE DEF r
  <2>5. \A u \in Task : u # t => runOf'[u] = runOf[u] /\ runOf[u] # r
    BY <2>3, <2>4 DEF TypeOK, OwnRow
  <2>6. runOf'[t] = r /\ \A u \in Task : u # t => pc'[u] = pc[u]
    BY <2>3 DEF TypeOK
  <2>7. \A u \in Task : runOf'[u] # 0 => runOf'[u] \in DOMAIN history'
    BY <2>2, <2>4, <2>5, <2>6 DEF OwnRow
  <2>8. ASSUME NEW u \in Task, u # t, pc'[u] \in Owning
        PROVE  /\ runOf'[u] \in DOMAIN history'
               /\ history'[runOf'[u]].job = jobOf'[u]
               /\ Ledger!IsOpen(history'[runOf'[u]])
               /\ \A w \in Task : runOf'[w] = runOf'[u] => w = u
    BY <2>2, <2>3, <2>5, <2>6, <2>8 DEF OwnRow
  <2>9. /\ runOf'[t] \in DOMAIN history'
        /\ history'[runOf'[t]].job = jobOf'[t]
        /\ Ledger!IsOpen(history'[runOf'[t]])
        /\ \A w \in Task : runOf'[w] = runOf'[t] => w = t
    BY <2>2, <2>3, <2>4, <2>5, <2>6
  <2> QED
    BY <2>7, <2>8, <2>9 DEF OwnRow, Owning
<1>7. ASSUME NEW t \in Task, Execute(t) \/ Cleanup(t) \/ CancelExec(t)
      PROVE  OwnRow'
  <2>1. PICK stage \in Owning : pc' = [pc EXCEPT ![t] = stage]
    BY <1>7 DEF Execute, Cleanup, CancelExec, AfterExec, Owning
  <2>2. pc[t] \in Owning /\ UNCHANGED <<history, jobOf, runOf>>
    BY <1>7 DEF Execute, Cleanup, CancelExec, Owning
  <2> QED
    BY <2>1, <2>2, OwnKept DEF TypeOK
<1>8. ASSUME NEW t \in Task, CleanupRaises(t) \/ Alert(t)
      PROVE  OwnRow'
  BY <1>8, LeaveOwn DEF CleanupRaises, Alert
<1>9. ASSUME NEW t \in Task, Persist(t)
      PROVE  OwnRow'
  BY <1>9, OwnClosed DEF Persist, TypeOK, Owning
<1>10. ASSUME NEW t \in Task, CancelWaiter(t)
       PROVE  OwnRow'
  BY <1>10, OwnKept DEF CancelWaiter, Forget, TypeOK, Owning
<1>11. ASSUME NEW t \in Task, CancelElsewhere(t) \/ DbFails(t)
       PROVE  OwnRow'
  <2>0. Leave(t) /\ pc[t] # "waiting"
    BY <1>11 DEF CancelElsewhere, DbFails
  <2>1. CASE UNCHANGED history
    BY <2>0, <2>1, LeaveOwn
  <2>2. CASE pc[t] = "insert" /\ AddRow(jobOf[t])
    <3>1. jobOf[t] \in Job
      BY <2>2 DEF StageShape
    <3>2. /\ DOMAIN history \subseteq DOMAIN history'
          /\ \A q \in DOMAIN history : history'[q] = history[q]
      <4>1. Len(history) \in Nat /\ AddRow(jobOf[t])
        BY <2>2, LenProperties DEF TypeOK
      <4>2. /\ DOMAIN history = 1 .. Len(history)
            /\ DOMAIN history' = 1 .. Len(history) + 1
            /\ \A q \in DOMAIN history : history'[q] = history[q]
        BY <3>1, <4>1, OpenType
      <4> QED
        BY <4>1, <4>2
    <3> QED
      BY <2>0, <3>2, LeaveOwn
  <2>3. CASE pc[t] = "persist" /\ WriteResult(runOf[t], outcome[t])
    BY <2>0, <2>3, LeaveEffect, OwnClosed DEF Owning
  <2> QED BY <1>11, <2>1, <2>2, <2>3 DEF CancelElsewhere, DbFails, CommitMayStand
<1> QED
  BY <1>1, <1>2, <1>3, <1>4, <1>5, <1>6, <1>7, <1>8, <1>9, <1>10, <1>11
     DEF Next, Environment, Step, Cancel, vars, SetStatus, Shutdown, CloseLoop, Restart

--------------------------------------------------------------------------------
(* The permits of the semaphore.                                           *)

LEMMA HoldersFinite ==
  /\ IsFiniteSet(Holders) /\ Cardinality(Holders) \in Nat
  /\ IsFiniteSet(Holders') /\ Cardinality(Holders') \in Nat
<1>1. Holders \subseteq Task /\ Holders' \subseteq Task
  BY DEF Holders
<1> QED
  BY <1>1, TaskAssumption, FS_Subset, FS_CardinalityType

\* A step that moves nobody across the semaphore keeps the accounts.
LEMMA SlotKept ==
  ASSUME SlotAccounting, permits' = permits, waiters' # << >> => waiters # << >>,
         \A t \in Task : t \in Holders' <=> t \in Holders
  PROVE  SlotAccounting'
<1>1. Holders' = Holders
  BY DEF Holders
<1> QED
  BY <1>1 DEF SlotAccounting

\* Releasing either hands the permit over or gives it back.
LEMMA LeaveSlots ==
  ASSUME TypeOK, StageShape, QueueExact, SlotAccounting,
         NEW t \in Task, pc[t] # "waiting", Leave(t)
  PROVE  SlotAccounting'
<1>1. CASE t \in Holders /\ waiters # << >>
  <2> DEFINE h == Head(waiters)
  <2>1. h \in Task /\ pc[h] = "waiting"
    BY <1>1, HeadWaits
  <2>2. /\ pc' = [pc EXCEPT ![t] = "idle", ![h] = "load"]
        /\ origin' = [origin EXCEPT ![t] = "none"] /\ permits' = permits
    BY <1>1 DEF Leave, Release, Forget
  <2>3. h \notin Holders /\ origin[h] # "pipeline"
    BY <2>1 DEF Holders, Guarded, StageShape
  <2> HIDE DEF h
  <2>4. Holders' = (Holders \ {t}) \cup {h}
    BY <2>1, <2>2, <2>3 DEF Holders, Guarded, TypeOK
  <2>5. /\ IsFiniteSet(Holders \ {t})
        /\ Cardinality(Holders \ {t}) = Cardinality(Holders) - 1
    BY <1>1, HoldersFinite, FS_RemoveElement
  <2>6. Cardinality(Holders') = Cardinality(Holders \ {t}) + 1
    BY <2>3, <2>4, <2>5, FS_AddElement
  <2> QED
    BY <1>1, <2>2, <2>5, <2>6, HoldersFinite DEF SlotAccounting
<1>2. CASE t \in Holders /\ waiters = << >>
  <2>1. /\ pc' = [pc EXCEPT ![t] = "idle"] /\ permits' = permits + 1
        /\ waiters' = waiters /\ origin' = [origin EXCEPT ![t] = "none"]
    BY <1>2 DEF Leave, Release, Forget
  <2>2. Holders' = Holders \ {t}
    BY <2>1 DEF Holders, Guarded, TypeOK
  <2>3. Cardinality(Holders') = Cardinality(Holders) - 1
    BY <1>2, <2>2, HoldersFinite, FS_RemoveElement
  <2> QED
    BY <1>2, <2>1, <2>3, HoldersFinite DEF SlotAccounting, TypeOK
<1>3. CASE t \notin Holders
  <2>1. /\ pc' = [pc EXCEPT ![t] = "idle"] /\ permits' = permits
        /\ waiters' = waiters /\ origin' = [origin EXCEPT ![t] = "none"]
    BY <1>3 DEF Leave, Release, Forget, semVars
  <2>2. \A u \in Task : u \in Holders' <=> u \in Holders
    BY <1>3, <2>1 DEF Holders, Guarded, TypeOK
  <2> QED
    BY <2>1, <2>2, SlotKept
<1> QED
  BY <1>1, <1>2, <1>3

LEMMA SlotInit == Init => SlotAccounting
<1> SUFFICES ASSUME Init PROVE SlotAccounting
  OBVIOUS
<1>1. Holders = {}
  BY DEF Init, Holders, Guarded
<1> QED
  BY <1>1, FS_EmptySet, LimitAssumption DEF Init, SlotAccounting

LEMMA SlotStep ==
  ASSUME TypeOK, StageShape, QueueExact, SlotAccounting, [Next]_vars
  PROVE  SlotAccounting'
<1> USE DEF taskVars, semVars
<1>1. ASSUME NEW t \in Task, NEW j \in Job, Fire(t, j) \/ TriggerNow(t, j) \/ StartNode(t, j)
      PROVE  SlotAccounting'
  <2>1. /\ permits' = permits /\ waiters' = waiters /\ pc[t] = "idle"
        /\ \A u \in Task : u # t => pc'[u] = pc[u] /\ origin'[u] = origin[u]
        /\ origin'[t] = "pipeline" \/ pc'[t] = "created"
    BY <1>1 DEF Fire, TriggerNow, StartNode, TypeOK
  <2>2. \A u \in Task : u \in Holders' <=> u \in Holders
    BY <2>1 DEF Holders, Guarded
  <2> QED
    BY <2>1, <2>2, SlotKept
<1>2. CASE UNCHANGED <<taskVars, semVars>>
  BY <1>2, SlotKept DEF Holders
<1>3. CASE Exit \/ Crash
  <2>1. /\ pc' = [t \in Task |-> "idle"] /\ permits' = MaxConcurrent /\ waiters' = << >>
    BY <1>3 DEF Exit, Crash, LoseMemory
  <2>2. Holders' = {}
    BY <2>1 DEF Holders, Guarded
  <2> QED
    BY <2>1, <2>2, FS_EmptySet, LimitAssumption DEF SlotAccounting
<1>4. ASSUME NEW t \in Task, Acquire(t)
      PROVE  SlotAccounting'
  <2>1. CASE permits > 0 /\ permits' = permits - 1 /\ pc' = [pc EXCEPT ![t] = "load"] /\ UNCHANGED waiters
    <3>1. t \notin Holders /\ origin[t] # "pipeline" /\ origin' = origin
      BY <1>4 DEF Acquire, Holders, Guarded, StageShape
    <3>2. Holders' = Holders \cup {t}
      BY <2>1, <3>1 DEF Holders, Guarded, TypeOK
    <3>3. Cardinality(Holders') = Cardinality(Holders) + 1
      BY <3>1, <3>2, HoldersFinite, FS_AddElement
    <3> QED
      BY <2>1, <3>3, HoldersFinite DEF SlotAccounting, TypeOK
  <2>2. CASE permits = 0 /\ permits' = permits /\ pc' = [pc EXCEPT ![t] = "waiting"]
    <3>1. \A u \in Task : u \in Holders' <=> u \in Holders
      BY <1>4, <2>2 DEF Acquire, Holders, Guarded, TypeOK
    <3>2. Holders' = Holders
      BY <3>1 DEF Holders
    <3> QED
      BY <2>2, <3>2 DEF SlotAccounting
  <2> QED BY <1>4, <2>1, <2>2 DEF Acquire
<1>5. ASSUME NEW t \in Task, Load(t)
      PROVE  SlotAccounting'
  <2>1. CASE Leave(t)
    BY <1>5, <2>1, LeaveSlots DEF Load
  <2>2. CASE Goto(t, "insert") /\ pc[t] = "load"
    BY <2>2, SlotKept DEF Holders, Guarded, TypeOK
  <2> QED BY <1>5, <2>1, <2>2 DEF Load
<1>6. ASSUME NEW t \in Task, Insert(t) \/ Execute(t) \/ Cleanup(t) \/ Persist(t) \/ CancelExec(t)
      PROVE  SlotAccounting'
  <2>1. PICK stage \in Guarded : pc' = [pc EXCEPT ![t] = stage]
    BY <1>6 DEF Insert, Execute, Cleanup, Persist, CancelExec, AfterExec, Guarded
  <2>2. pc[t] \in Guarded /\ UNCHANGED <<origin, permits, waiters>>
    BY <1>6 DEF Insert, Execute, Cleanup, Persist, CancelExec, Guarded
  <2> QED
    BY <2>1, <2>2, SlotKept DEF Holders, TypeOK
<1>7. ASSUME NEW t \in Task, CleanupRaises(t) \/ DbFails(t) \/ Alert(t) \/ CancelElsewhere(t)
      PROVE  SlotAccounting'
  BY <1>7, LeaveSlots DEF CleanupRaises, DbFails, Alert, CancelElsewhere
<1>8. ASSUME NEW t \in Task, CancelWaiter(t)
      PROVE  SlotAccounting'
  <2>1. PICK i \in DOMAIN waiters : waiters[i] = t
    BY <1>8 DEF CancelWaiter
  <2>2. waiters # << >> /\ pc[t] = "waiting"
    BY <2>1 DEF QueueExact
  <2>3. /\ permits' = permits /\ pc' = [pc EXCEPT ![t] = "idle"]
        /\ origin' = [origin EXCEPT ![t] = "none"]
    BY <1>8 DEF CancelWaiter, Forget
  <2>4. \A u \in Task : u \in Holders' <=> u \in Holders
    BY <2>2, <2>3 DEF Holders, Guarded, TypeOK
  <2> QED
    BY <2>2, <2>3, <2>4, SlotKept
<1> QED
  BY <1>1, <1>2, <1>3, <1>4, <1>5, <1>6, <1>7, <1>8
     DEF Next, Environment, Step, Cancel, vars, SetStatus, Shutdown, CloseLoop, Restart

--------------------------------------------------------------------------------
(* The theorems.                                                           *)

LEMMA IndInit == Init => IndInv
<1> SUFFICES ASSUME Init PROVE IndInv
  OBVIOUS
<1>1. StageShape /\ OwnRow
  BY DEF Init, StageShape, OwnRow, Owning
<1>2. QueueExact
  <2>1. waiters = << >> /\ DOMAIN waiters = {}
    BY DEF Init
  <2> QED
    BY <2>1 DEF Init, QueueExact
<1> QED
  BY <1>1, <1>2, InitType, SlotInit DEF IndInv

LEMMA IndStep == IndInv /\ [Next]_vars => IndInv'
  BY TypeStep, ShapeStep, QueueStep, SlotStep, OwnStep DEF IndInv

\* In every reachable state of the engine the inductive invariant holds.
THEOREM Inductive == Spec => []IndInv
  BY IndInit, IndStep, PTL DEF Spec

\* Every variable keeps its type, for every set of jobs and tasks.
THEOREM TypeCorrect == Spec => []TypeOK
  BY Inductive, PTL DEF IndInv

\* Whatever order runs finish, fail or are cancelled in, no permit of the
\* execution semaphore is lost or granted twice.
THEOREM SlotsAccounted == Spec => []SlotAccounting
  BY Inductive, PTL DEF IndInv

\* At most MAX_CONCURRENT_JOBS scheduled and requested runs are under way.
THEOREM SlotBound == Spec => [](Cardinality(Holders) <= MaxConcurrent)
<1>1. IndInv => Cardinality(Holders) <= MaxConcurrent
  BY HoldersFinite, LimitAssumption DEF IndInv, TypeOK, SlotAccounting
<1> QED
  BY <1>1, Inductive, PTL

\* A run writes its result into its own open row and into no other.
THEOREM RowsOwned == Spec => []OwnRow
  BY Inductive, PTL DEF IndInv

--------------------------------------------------------------------------------
(* Scheduled fires of a job.                                               *)

\* At most one live task of a job comes from its schedule, at whatever stage.
SingleFire ==
  \A t, u \in Task :
    t # u /\ jobOf[t] = jobOf[u] /\ origin[t] = "schedule" => origin[u] # "schedule"

\* A task keeps its job and its origin, or has just ended.
Inherits(t) ==
  \/ jobOf'[t] = jobOf[t] /\ origin'[t] = origin[t]
  \/ origin'[t] = "none"

LEMMA LeaveInherits ==
  ASSUME TypeOK, NEW t \in Task, Forget(t)
  PROVE  \A u \in Task : Inherits(u)
  BY DEF Forget, TypeOK, Inherits

LEMMA FireStep ==
  ASSUME TypeOK, StageShape, SingleFire, [Next]_vars
  PROVE  SingleFire'
<1> USE DEF taskVars, semVars
<1>1. ASSUME NEW t \in Task, NEW j \in Job, Fire(t, j)
      PROVE  SingleFire'
  <2>1. /\ jobOf'[t] = j /\ origin'[t] = "schedule"
        /\ \A u \in Task : u # t => jobOf'[u] = jobOf[u] /\ origin'[u] = origin[u]
    BY <1>1 DEF Fire, TypeOK
  <2>2. \A u \in Task : origin[u] = "schedule" => jobOf[u] # j
    BY <1>1 DEF Fire, StageShape, Live
  <2> QED
    BY <2>1, <2>2 DEF SingleFire
<1>2. ASSUME NEW t \in Task, NEW j \in Job, TriggerNow(t, j) \/ StartNode(t, j)
      PROVE  SingleFire'
  <2>1. /\ origin'[t] \in {"request", "pipeline"}
        /\ \A u \in Task : u # t => jobOf'[u] = jobOf[u] /\ origin'[u] = origin[u]
    BY <1>2 DEF TriggerNow, StartNode, TypeOK
  <2> QED
    BY <2>1 DEF SingleFire
<1>3. ASSUME \A u \in Task : Inherits(u)
      PROVE  SingleFire'
  BY <1>3 DEF Inherits, SingleFire
<1>4. CASE UNCHANGED <<jobOf, origin>>
  BY <1>4 DEF SingleFire
<1>5. CASE Exit \/ Crash
  BY <1>3, <1>5 DEF Exit, Crash, LoseMemory, Inherits
<1>6. ASSUME NEW t \in Task, Load(t)
      PROVE  SingleFire'
  BY <1>3, <1>4, <1>6, LeaveInherits DEF Load, Leave
<1>7. ASSUME NEW t \in Task,
             CleanupRaises(t) \/ DbFails(t) \/ Alert(t) \/ CancelWaiter(t) \/ CancelElsewhere(t)
      PROVE  SingleFire'
  <2>1. Forget(t)
    BY <1>7 DEF CleanupRaises, DbFails, Alert, CancelWaiter, CancelElsewhere, Leave
  <2> QED
    BY <1>3, <2>1, LeaveInherits
<1> QED
  BY <1>1, <1>2, <1>4, <1>5, <1>6, <1>7
     DEF Next, Environment, Step, Cancel, vars, SetStatus, Shutdown, CloseLoop, Restart,
         Acquire, Insert, Execute, Cleanup, Persist, CancelExec

\* Scheduled fires of one job never overlap (the max_instances of its entry):
\* of two executions of a job at one time, one was asked for by other means.
THEOREM FiresNeverOverlap == Spec => []NoScheduledOverlap
<1>1. Init => SingleFire
  BY DEF Init, SingleFire
<1>2. IndInv /\ SingleFire /\ [Next]_vars => SingleFire'
  BY FireStep DEF IndInv
<1>3. SingleFire => NoScheduledOverlap
  BY DEF SingleFire, NoScheduledOverlap
<1> QED
  BY <1>1, <1>2, <1>3, Inductive, PTL DEF Spec

--------------------------------------------------------------------------------
(* Open rows, while nothing is stopped and nothing fails.                  *)

\* Until the first stop no task is cancelled, no task is in the cleanup of a
\* docker run, and every open row has a task that is on its way to close it.
Attended ==
  /\ \A t \in Task : pc[t] # "cleanup"
  /\ stops = 0 =>
       /\ phase = "up" /\ cancelled = {}
       /\ \A r \in DOMAIN history : Ledger!IsOpen(history[r]) =>
            \E t \in Task : pc[t] \in {"exec", "persist"} /\ runOf[t] = r

\* A step of one task that writes no row leaves the open rows with their tasks,
\* if the task keeps its row or has none to close.
LEMMA AttendedKept ==
  ASSUME Attended, UNCHANGED <<history, phase, stops>>,
         cancelled' \subseteq cancelled,
         \A t \in Task : pc'[t] # "cleanup",
         \A t \in Task : pc[t] \in {"exec", "persist"} =>
           pc'[t] \in {"exec", "persist"} /\ runOf'[t] = runOf[t]
  PROVE  Attended'
  BY DEF Attended

\* Leaving a task that has no row to close.
LEMMA LeaveAttended ==
  ASSUME TypeOK, QueueExact, Attended, UNCHANGED <<history, phase, stops>>,
         NEW t \in Task, pc[t] \notin {"waiting", "exec", "persist"}, Leave(t)
  PROVE  Attended'
<1>1. cancelled' \subseteq cancelled
  BY DEF Leave, Forget
<1>2. \A u \in Task : pc'[u] # "cleanup"
  BY LeaveEffect DEF Attended
<1>3. \A u \in Task : pc[u] \in {"exec", "persist"} =>
        pc'[u] \in {"exec", "persist"} /\ runOf'[u] = runOf[u]
  BY LeaveEffect
<1> QED
  BY <1>1, <1>2, <1>3, AttendedKept

LEMMA AttendedStep ==
  ASSUME DockerJob = {}, DbMayFail = FALSE, IndInv, Attended, [Next]_vars
  PROVE  Attended'
<1> USE DEF taskVars, semVars
<1>0. TypeOK /\ StageShape /\ QueueExact /\ OwnRow
  BY DEF IndInv
<1>1. ASSUME NEW t \in Task, NEW j \in Job, Fire(t, j) \/ TriggerNow(t, j) \/ StartNode(t, j)
      PROVE  Attended'
  <2>1. /\ pc[t] = "idle" /\ pc'[t] \in {"created", "load"}
        /\ \A u \in Task : u # t => pc'[u] = pc[u]
        /\ UNCHANGED <<history, runOf, cancelled, phase, stops>>
    BY <1>0, <1>1 DEF Fire, TriggerNow, StartNode, TypeOK
  <2> QED
    BY <2>1, AttendedKept DEF Attended
<1>2. CASE UNCHANGED <<history, pc, runOf, cancelled, phase, stops>>
  BY <1>2, AttendedKept DEF Attended
<1>3. CASE Shutdown \/ CloseLoop \/ Restart \/ Exit \/ Crash
  <2>1. stops' # 0
    BY <1>0, <1>3 DEF Shutdown, CloseLoop, Restart, Exit, Crash, Attended, TypeOK
  <2>2. \A t \in Task : pc'[t] # "cleanup"
    BY <1>3 DEF Shutdown, CloseLoop, Restart, Exit, Crash, LoseMemory, Attended
  <2> QED
    BY <2>1, <2>2 DEF Attended
<1>4. ASSUME NEW t \in Task, Acquire(t)
      PROVE  Attended'
  <2>1. /\ pc[t] = "created" /\ pc'[t] \in {"load", "waiting"}
        /\ \A u \in Task : u # t => pc'[u] = pc[u]
        /\ UNCHANGED <<history, runOf, cancelled, phase, stops>>
    BY <1>0, <1>4 DEF Acquire, TypeOK
  <2> QED
    BY <2>1, AttendedKept DEF Attended
<1>5. ASSUME NEW t \in Task, Load(t)
      PROVE  Attended'
  <2>1. CASE Leave(t)
    BY <1>0, <1>5, <2>1, LeaveAttended DEF Load
  <2>2. CASE Goto(t, "insert") /\ UNCHANGED <<runOf, outcome>>
    <3>1. /\ pc[t] = "load" /\ pc'[t] = "insert"
          /\ \A u \in Task : u # t => pc'[u] = pc[u]
          /\ UNCHANGED <<history, runOf, cancelled, phase, stops>>
      BY <1>0, <1>5, <2>2 DEF Load, TypeOK
    <3> QED
      BY <3>1, AttendedKept DEF Attended
  <2> QED
    BY <1>5, <2>1, <2>2 DEF Load
<1>6. ASSUME NEW t \in Task, Insert(t)
      PROVE  Attended'
  <2>1. jobOf[t] \in Job /\ AddRow(jobOf[t])
    BY <1>0, <1>6 DEF Insert, StageShape
  <2>2. /\ Len(history) \in Nat /\ Len(history') = Len(history) + 1
        /\ DOMAIN history = 1 .. Len(history)
        /\ DOMAIN history' = 1 .. Len(history) + 1
        /\ \A q \in DOMAIN history : history'[q] = history[q]
    BY <1>0, <2>1, OpenType, LenProperties DEF TypeOK
  <2>3. /\ pc[t] = "insert" /\ pc'[t] = "exec" /\ runOf'[t] = Len(history) + 1
        /\ \A u \in Task : u # t => pc'[u] = pc[u] /\ runOf'[u] = runOf[u]
        /\ UNCHANGED <<cancelled, phase, stops>>
    BY <1>0, <1>6, <2>2 DEF Insert, TypeOK
  <2>4. ASSUME NEW r \in DOMAIN history', Ledger!IsOpen(history'[r]), stops = 0
        PROVE  \E u \in Task : pc'[u] \in {"exec", "persist"} /\ runOf'[u] = r
    <3>1. CASE r = Len(history) + 1
      BY <2>3, <3>1
    <3>2. CASE r \in DOMAIN history
      <4>1. PICK u \in Task : pc[u] \in {"exec", "persist"} /\ runOf[u] = r
        BY <2>2, <2>4, <3>2 DEF Attended
      <4> QED
        BY <2>3, <4>1
    <3> QED
      BY <2>2, <3>1, <3>2
  <2> QED
    BY <2>3, <2>4 DEF Attended
<1>7. ASSUME NEW t \in Task, Execute(t) \/ CancelExec(t)
      PROVE  Attended'
  <2>1. /\ pc[t] = "exec" /\ pc'[t] = "persist" /\ cancelled' \subseteq cancelled
        /\ \A u \in Task : u # t => pc'[u] = pc[u]
        /\ UNCHANGED <<history, runOf, phase, stops>>
    BY <1>0, <1>7 DEF Execute, CancelExec, AfterExec, TypeOK
  <2> QED
    BY <2>1, AttendedKept DEF Attended
<1>8. ASSUME NEW t \in Task, Cleanup(t) \/ CleanupRaises(t) \/ DbFails(t)
      PROVE  Attended'
  BY <1>8 DEF Cleanup, CleanupRaises, DbFails, Attended
<1>9. ASSUME NEW t \in Task, Alert(t)
      PROVE  Attended'
  BY <1>0, <1>9, LeaveAttended DEF Alert
<1>10. ASSUME NEW t \in Task, Persist(t)
       PROVE  Attended'
  <2>1. /\ runOf[t] \in DOMAIN history /\ outcome[t] \in Ledger!RunStatus
        /\ pc[t] = "persist" /\ WriteResult(runOf[t], outcome[t])
    BY <1>0, <1>10, OwnedRow DEF Persist, Owning
  <2>2. /\ DOMAIN history' = DOMAIN history
        /\ \A q \in DOMAIN history : q # runOf[t] => history'[q] = history[q]
    BY <1>0, <2>1, CloseType
  <2>3. ~Ledger!IsOpen(history'[runOf[t]])
    <3>1. history[runOf[t]] \in Ledger!Row
      BY <1>0, <2>1, LenProperties, ElementOfSeq DEF TypeOK
    <3> QED
      BY <2>1, <3>1 DEF WriteResult, Ledger!Row
  <2>4. /\ pc'[t] = "alert"
        /\ \A u \in Task : u # t => pc'[u] = pc[u]
        /\ UNCHANGED <<runOf, cancelled, phase, stops>>
    BY <1>0, <1>10 DEF Persist, TypeOK
  <2>5. ASSUME NEW r \in DOMAIN history', Ledger!IsOpen(history'[r]), stops = 0
        PROVE  \E u \in Task : pc'[u] \in {"exec", "persist"} /\ runOf'[u] = r
    <3>1. r \in DOMAIN history /\ r # runOf[t] /\ Ledger!IsOpen(history[r])
      BY <2>2, <2>3, <2>5
    <3>2. PICK u \in Task : pc[u] \in {"exec", "persist"} /\ runOf[u] = r
      BY <2>5, <3>1 DEF Attended
    <3> QED
      BY <2>4, <3>1, <3>2
  <2> QED
    BY <2>4, <2>5 DEF Attended
<1>11. ASSUME NEW t \in Task, CancelWaiter(t) \/ CancelElsewhere(t)
       PROVE  Attended'
  <2>1. stops' # 0
    BY <1>11 DEF CancelWaiter, CancelElsewhere, Attended
  <2>2. \A u \in Task : pc'[u] # "cleanup"
    <3>1. CASE CancelWaiter(t)
      BY <1>0, <3>1 DEF CancelWaiter, Attended, TypeOK
    <3>2. CASE CancelElsewhere(t)
      BY <1>0, <3>2, LeaveEffect DEF CancelElsewhere, Attended
    <3> QED
      BY <1>11, <3>1, <3>2
  <2> QED
    BY <2>1, <2>2 DEF Attended
<1> QED
  BY <1>1, <1>2, <1>3, <1>4, <1>5, <1>6, <1>7, <1>8, <1>9, <1>10, <1>11
     DEF Next, Environment, Step, Cancel, vars, SetStatus

\* A row shown as RUNNING is running: until the process is stopped, in a venv-only
\* deployment whose database never fails, a task will write its result.
THEOREM OpenRowsAttended ==
  ASSUME DockerJob = {}, DbMayFail = FALSE
  PROVE  Spec => []OpenRowHasTask
<1>1. Init => Attended
  BY DEF Init, Attended
<1>2. IndInv /\ Attended /\ [Next]_vars => Attended'
  BY AttendedStep
<1>3. IndInv /\ Attended => OpenRowHasTask
  BY DEF IndInv, TypeOK, Attended, OpenRowHasTask
<1> QED
  BY <1>1, <1>2, <1>3, Inductive, PTL DEF Spec

--------------------------------------------------------------------------------
(* The engine implements the ledger.                                       *)

LEMMA StopStep ==
  ASSUME TypeOK, QueueExact, StopShape, [Next]_vars
  PROVE  StopShape'
<1> USE DEF taskVars, semVars, TypeOK, StopShape, Live
<1>1. ASSUME NEW t \in Task, NEW j \in Job, Fire(t, j) \/ TriggerNow(t, j) \/ StartNode(t, j)
      PROVE  StopShape'
  BY <1>1 DEF Fire, TriggerNow, StartNode
<1>2. CASE Shutdown \/ CloseLoop \/ Restart
  BY <1>2 DEF Shutdown, CloseLoop, Restart
<1>3. CASE Exit \/ Crash
  BY <1>3 DEF Exit, Crash, LoseMemory
<1>4. CASE UNCHANGED <<pc, outcome, cancelled, phase>>
  BY <1>4
<1>5. ASSUME NEW t \in Task, Acquire(t) \/ Insert(t) \/ Execute(t) \/ Cleanup(t) \/ Persist(t)
                               \/ CancelExec(t)
      PROVE  StopShape'
  <2>1. pc[t] # "idle" /\ UNCHANGED phase /\ cancelled' \subseteq cancelled
    BY <1>5 DEF Acquire, Insert, Execute, Cleanup, Persist, CancelExec
  <2>2. \A u \in Task : u # t => pc'[u] = pc[u] /\ outcome'[u] = outcome[u]
    BY <1>5 DEF Acquire, Insert, Execute, Cleanup, Persist, CancelExec
  <2>3. pc'[t] \in {"cleanup", "persist"} /\ outcome'[t] = "running" => phase # "up"
    <3>1. CASE Acquire(t) \/ Insert(t) \/ Persist(t)
      BY <3>1 DEF Acquire, Insert, Persist
    <3>2. CASE Execute(t)
      BY <3>2 DEF Execute, Outcomes
    <3>3. CASE Cleanup(t)
      BY <3>3 DEF Cleanup
    <3>4. CASE CancelExec(t)
      BY <3>4 DEF CancelExec
    <3> QED
      BY <1>5, <3>1, <3>2, <3>3, <3>4
  <2> QED
    BY <2>1, <2>2, <2>3
<1>6. ASSUME NEW t \in Task, Leave(t) \/ CancelWaiter(t), pc[t] # "idle",
             Leave(t) => pc[t] # "waiting", UNCHANGED phase
      PROVE  StopShape'
  <2>1. cancelled' \subseteq cancelled /\ outcome' = [outcome EXCEPT ![t] = "running"]
    BY <1>6 DEF Leave, CancelWaiter, Forget
  <2>2. pc'[t] = "idle" /\ \A u \in Task : u # t => pc'[u] \in {pc[u], "load"}
    <3>1. CASE Leave(t)
      BY <1>6, <3>1, LeaveEffect
    <3>2. CASE CancelWaiter(t)
      BY <3>2 DEF CancelWaiter
    <3> QED
      BY <1>6, <3>1, <3>2
  <2> QED
    BY <1>6, <2>1, <2>2
<1>7. ASSUME NEW t \in Task, Load(t)
      PROVE  StopShape'
  <2>1. CASE Leave(t)
    BY <1>6, <1>7, <2>1 DEF Load
  <2>2. CASE Goto(t, "insert") /\ UNCHANGED <<runOf, outcome>>
    BY <1>7, <2>2 DEF Load
  <2> QED
    BY <1>7, <2>1, <2>2 DEF Load
<1>8. ASSUME NEW t \in Task, CleanupRaises(t) \/ DbFails(t) \/ Alert(t)
      PROVE  StopShape'
  BY <1>6, <1>8 DEF CleanupRaises, DbFails, Alert
<1>9. ASSUME NEW t \in Task, CancelWaiter(t)
      PROVE  StopShape'
  <2>1. pc[t] = "waiting" /\ UNCHANGED phase
    BY <1>9 DEF CancelWaiter, QueueExact
  <2> QED
    BY <1>6, <1>9, <2>1 DEF CancelWaiter, Leave, Release, Forget
<1>10. ASSUME NEW t \in Task, CancelElsewhere(t)
       PROVE  StopShape'
  <2>1. Leave(t) /\ UNCHANGED phase /\ pc[t] # "waiting" /\ phase # "up"
    BY <1>10 DEF CancelElsewhere
  <2>2. phase # "down"
    BY <1>10 DEF CancelElsewhere
  <2>3. \A u \in Task : u # t => pc'[u] \in {pc[u], "load"}
    BY <2>1, LeaveEffect
  <2>4. /\ pc'[t] = "idle" /\ outcome' = [outcome EXCEPT ![t] = "running"]
        /\ cancelled' \subseteq cancelled
    BY <2>1, LeaveEffect DEF Leave, Forget
  <2> QED
    BY <2>1, <2>2, <2>3, <2>4
<1> QED
  BY <1>1, <1>2, <1>3, <1>4, <1>5, <1>7, <1>8, <1>9, <1>10
     DEF Next, Environment, Step, Cancel, vars, SetStatus

\* What the commits do is a step of the ledger because of who makes them: an insert
\* has a job of the table, a result goes to an open row of its own task, and it is
\* final unless the process is being stopped.
LEMMA LedgerStep ==
  ASSUME IndInv, StopShape, [Next]_vars
  PROVE  [Ledger!Next]_<<history, phase = "up">>
<1> USE DEF taskVars, semVars
<1>1. ASSUME NEW t \in Task, AddRow(jobOf[t]), pc[t] = "insert", UNCHANGED phase
      PROVE  Ledger!Next
  <2>1. jobOf[t] \in Job
    BY <1>1 DEF IndInv, StageShape
  <2>2. Ledger!Open(jobOf[t])
    BY <1>1 DEF AddRow, Ledger!Open
  <2> QED
    BY <2>1, <2>2 DEF Ledger!Next
<1>2. ASSUME NEW t \in Task, WriteResult(runOf[t], outcome[t]), pc[t] = "persist",
             UNCHANGED phase
      PROVE  Ledger!Next
  <2>1. runOf[t] \in DOMAIN history /\ outcome[t] \in Ledger!RunStatus
    BY <1>2, OwnedRow DEF IndInv, Owning
  <2>2. Ledger!IsOpen(history[runOf[t]])
    BY <1>2 DEF IndInv, OwnRow, Owning
  <2>3. outcome[t] = "running" => phase # "up"
    BY <1>2 DEF StopShape
  <2>4. Ledger!Close(runOf[t], outcome[t])
    BY <1>2, <2>2, <2>3 DEF WriteResult, Ledger!Close
  <2> QED
    BY <2>1, <2>4 DEF Ledger!Next
<1>3. ASSUME NEW t \in Task, Insert(t) \/ Persist(t) \/ CancelElsewhere(t) \/ DbFails(t)
      PROVE  [Ledger!Next]_<<history, phase = "up">>
  <2>1. UNCHANGED phase
    BY <1>3 DEF Insert, Persist, CancelElsewhere, DbFails
  <2>2. \/ UNCHANGED history
        \/ pc[t] = "insert" /\ AddRow(jobOf[t])
        \/ pc[t] = "persist" /\ WriteResult(runOf[t], outcome[t])
    BY <1>3 DEF Insert, Persist, CancelElsewhere, DbFails, CommitMayStand
  <2> QED
    BY <1>1, <1>2, <2>1, <2>2
<1>4. CASE UNCHANGED history
  BY <1>4 DEF Ledger!Next, Ledger!StopOrStart
<1> QED
  BY <1>3, <1>4 DEF Next, Environment, Step, Cancel, vars, Fire, TriggerNow, StartNode,
              SetStatus, Shutdown, CloseLoop, Restart, Exit, Crash, LoseMemory,
              Acquire, Load, Execute, Cleanup, CleanupRaises, Alert,
              CancelWaiter, CancelExec

\* The history table only grows, a row is closed at most once and never changed
\* afterwards, and a row closed as RUNNING was closed by a shutdown.
THEOREM LedgerImplemented == Spec => ImplementsLedger
<1>1. Init => Ledger!Init
  BY DEF Init, Ledger!Init
<1>2. Init => StopShape
  BY DEF Init, StopShape, Live
<1>3. IndInv /\ StopShape /\ [Next]_vars => StopShape'
  BY StopStep DEF IndInv
<1> QED
  BY <1>1, <1>2, <1>3, LedgerStep, Inductive, PTL DEF Spec, ImplementsLedger, Ledger!Spec
================================================================================
