------------------------- MODULE PipelineRunnerProofs -------------------------
(***************************************************************************)
(* An execution of a pipeline implements the walk, obeys the edges it has  *)
(* loaded and takes no stale result, for any jobs, edges, requests and     *)
(* foreign runs.                                                           *)
(***************************************************************************)
EXTENDS PipelineRunner, MaximumFacts, FiniteSetTheorems, SequenceTheorems

Fresh(x) == x.stage \in {"idle", "start"}
Waits(x) == x.stage \in {"run", "read"}

\* One execution is well typed.
Typed(x, n, h) ==
  /\ x \in [stage : {"idle", "start", "decide", "run", "read", "done"}, pipeline : Nat,
            edges : {x.edges}, order : Seq(Job), next : Nat \ {0},
            results : [Job -> NodeResult],
            own : [Job -> 0 .. Len(h)], seen : [Job -> 0 .. Len(h)]]
  /\ DOMAIN x.edges \subseteq 1 .. n /\ x.edges \in [DOMAIN x.edges -> Edge]

\* Before it starts, an execution has neither edges nor results; then its loop is at
\* a place of a topological order, and has the results of the nodes before it.
LoopShape(x) ==
  /\ Fresh(x) => x.edges = << >> /\ x.next = 1 /\ \A j \in Job : ~Decided(x, j)
  /\ ~Fresh(x) =>
       /\ IsTopological(x.order, x.edges)
       /\ x.next <= Len(x.order) + 1
       /\ \A k \in DOMAIN x.order : Decided(x, x.order[k]) <=> k < x.next
  /\ Waits(x) => x.next <= Len(x.order) /\ ~Blocked(x)

\* What an execution knows of a run: its own row is a row of the job, and it is closed
\* before its result is read.
RowShape(x, h) ==
  \A j \in Job :
    /\ x.own[j] # 0 => x.own[j] \in DOMAIN h /\ h[x.own[j]].job = j
    /\ ~Decided(x, j) => x.seen[j] = 0
    /\ ~Decided(x, j) /\ x.own[j] # 0 => Waits(x) /\ j = Current(x)
    /\ x.stage = "read" /\ j = Current(x) /\ x.own[j] # 0 =>
         h[x.own[j]].status \in Ledger!FinalStatus
    /\ x.stage = "run" /\ j = Current(x) => x.own[j] # 0

\* EdgesObeyed and ResultNotStale, for one execution.
Obedient(x) ==
  \A j \in Nodes(x.edges) : Decided(x, j) =>
    (x.results[j] = "pending" <=> Walk!Refusing(x.edges, x.results, j) # {})

NotStale(x, h) ==
  \A j \in Job : x.seen[j] # 0 /\ x.own[j] # 0 =>
    /\ x.seen[j] >= x.own[j]
    /\ x.seen[j] = x.own[j] => x.results[j] \in Ledger!FinalStatus
                               /\ x.results[j] = h[x.own[j]].status

ExecInv(x, n, h) ==
  Typed(x, n, h) /\ LoopShape(x) /\ RowShape(x, h) /\ Obedient(x) /\ NotStale(x, h)

IndInv ==
  /\ EditsTypeOK
  /\ history \in Seq(Ledger!Row) /\ active \subseteq Job
  /\ execs \in Nat /\ others \in Nat
  /\ exec = [e \in Exec |-> exec[e]]
  /\ \A e \in Exec : ExecInv(exec[e], numbered, history)

--------------------------------------------------------------------------------
(* The tables.                                                             *)

\* New rows come after all there are, and get the edges in their order.
LEMMA InsertFacts ==
  ASSUME EditsTypeOK, NEW p, NEW new \in Seq(Edge)
  PROVE  \E last \in Nat :
           /\ \A i \in DOMAIN edges : i <= last
           /\ DOMAIN Inserted(p, new) = DOMAIN edges \cup (last + 1 .. last + Len(new))
           /\ \A i \in DOMAIN edges : Inserted(p, new)[i] = edges[i]
           /\ \A i \in last + 1 .. last + Len(new) :
                Inserted(p, new)[i] = [pipeline |-> p, edge |-> new[i - last]]
<1> DEFINE rows == {[id |-> i] : i \in DOMAIN edges}
           S == {0} \cup Ids(rows)
           last == NewId(rows, numbered) - 1
<1>1. numbered \in Nat /\ DOMAIN edges \subseteq 1 .. numbered
  BY DEF EditsTypeOK
<1>2. Ids(rows) = DOMAIN edges
  <2>1. \A r \in rows : r.id \in DOMAIN edges
    OBVIOUS
  <2>2. \A i \in DOMAIN edges : [id |-> i] \in rows /\ [id |-> i].id = i
    OBVIOUS
  <2> HIDE DEF rows
  <2>3. \A i \in DOMAIN edges : \E r \in rows : i = r.id
    BY <2>2
  <2> QED BY <2>1, <2>3, Zenon DEF Ids
<1>3. S \subseteq Nat /\ S # {} /\ \A x \in S : x <= numbered
  <2> HIDE DEF rows
  <2> QED BY <1>1, <1>2
<1>4. Max(S) \in S /\ \A x \in S : x <= Max(S)
  <2> HIDE DEF S
  <2> QED BY <1>1, <1>3, MaxFacts
<1>5. NewId(rows, numbered) \in {Max(S) + 1, numbered + 1}
  BY DEF NewId
<1>6. last \in Nat /\ \A i \in DOMAIN edges : i <= last
  <2> HIDE DEF S, rows
  <2>1. Max(S) \in Nat /\ \A i \in DOMAIN edges : i <= Max(S)
    <3> USE DEF S
    <3> QED BY <1>2, <1>3, <1>4
  <2> QED BY <1>1, <1>5, <2>1
<1>7. Inserted(p, new) =
        [i \in DOMAIN edges \cup (last + 1 .. last + Len(new)) |->
           IF i \in DOMAIN edges THEN edges[i] ELSE [pipeline |-> p, edge |-> new[i - last]]]
  BY DEF Inserted
<1> HIDE DEF last
<1>8. \A i \in last + 1 .. last + Len(new) : i \notin DOMAIN edges
  BY <1>1, <1>6
<1> QED BY <1>6, <1>7, <1>8

\* Ids are only ever counted up.
LEMMA NumberedFacts ==
  ASSUME NEW rows, numbered \in Nat, NEW b \in Nat, DOMAIN rows \subseteq 1 .. b,
         Numbered(rows)
  PROVE  numbered' \in Nat /\ numbered <= numbered' /\ DOMAIN rows \subseteq 1 .. numbered'
<1> DEFINE S == {numbered} \cup DOMAIN rows
<1>1. S \subseteq Nat /\ S # {} /\ \A x \in S : x <= numbered + b
  BY DEF Numbered
<1>2. numbered' = Max(S)
  BY DEF Numbered
<1>3. Max(S) \in S /\ \A x \in S : x <= Max(S)
  <2>1. numbered + b \in Nat
    OBVIOUS
  <2> HIDE DEF S
  <2> QED BY <1>1, <2>1, MaxFacts
<1>4. numbered' \in S /\ \A x \in S : x <= numbered'
  BY <1>2, <1>3
<1> QED BY <1>1, <1>4

Table(rows, pipes) == rows \in [DOMAIN rows -> [pipeline : pipes, edge : Edge]]

\* The tables after an insert.
LEMMA InsertedTyped ==
  ASSUME EditsTypeOK, NEW p, NEW new \in Seq(Edge), Numbered(Inserted(p, new)),
         NEW pipes, DOMAIN pipelines \subseteq pipes, p \in pipes
  PROVE  /\ numbered' \in Nat /\ numbered <= numbered'
         /\ DOMAIN Inserted(p, new) \subseteq 1 .. numbered'
         /\ Table(Inserted(p, new), pipes)
<1> DEFINE rows == Inserted(p, new)
<1>1. PICK last \in Nat :
        /\ \A i \in DOMAIN edges : i <= last
        /\ DOMAIN rows = DOMAIN edges \cup (last + 1 .. last + Len(new))
        /\ \A i \in DOMAIN edges : rows[i] = edges[i]
        /\ \A i \in last + 1 .. last + Len(new) :
             rows[i] = [pipeline |-> p, edge |-> new[i - last]]
  BY InsertFacts
<1>2. numbered \in Nat /\ DOMAIN edges \subseteq 1 .. numbered /\ Table(edges, DOMAIN pipelines)
  BY DEF EditsTypeOK, Table
<1>3. Len(new) \in Nat /\ \A k \in 1 .. Len(new) : new[k] \in Edge
  OBVIOUS
<1>4. DOMAIN rows \subseteq 1 .. numbered + last + Len(new)
  BY <1>1, <1>2, <1>3
<1>5. \A i \in DOMAIN rows : rows[i] \in [pipeline : pipes, edge : Edge]
  <2> TAKE i \in DOMAIN rows
  <2>1. CASE i \in DOMAIN edges
    BY <1>1, <1>2, <2>1 DEF Table
  <2>2. CASE i \in last + 1 .. last + Len(new)
    <3>1. i - last \in 1 .. Len(new)
      BY <2>2, <1>1, <1>3
    <3>2. rows[i] = [pipeline |-> p, edge |-> new[i - last]] /\ new[i - last] \in Edge
      BY <1>1, <1>3, <2>2, <3>1
    <3> HIDE DEF rows
    <3> QED BY <3>2
  <2> QED BY <1>1, <2>1, <2>2
<1>6. rows = [i \in DOMAIN rows |-> rows[i]]
  BY DEF Inserted
<1>7. Table(rows, pipes)
  BY <1>5, <1>6 DEF Table
<1>8. numbered + last + Len(new) \in Nat
  BY <1>1, <1>2, <1>3
<1>9. numbered' \in Nat /\ numbered <= numbered' /\ DOMAIN rows \subseteq 1 .. numbered'
  <2> HIDE DEF rows
  <2>1. Numbered(rows)
    BY DEF rows
  <2> QED BY <1>2, <1>4, <1>8, <2>1, NumberedFacts
<1> QED BY <1>7, <1>9

Call(pipes, n) ==
  [pipeline : pipes, status : PipelineStatus \cup {None},
   edges : Seq(Edge) \cup {None}, existing : SUBSET (1 .. n)]

\* A call that is in flight is one of a pipeline there is.
LEMMA CallFacts ==
  ASSUME EditsTypeOK, NEW c \in Caller, calls[c] # NoCall
  PROVE  calls[c] \in Call(DOMAIN pipelines, numbered)
BY DEF EditsTypeOK, Call

LEMMA CallGrows ==
  ASSUME NEW P, NEW Q, P \subseteq Q, NEW m \in Nat, NEW n \in Nat, m <= n,
         NEW x \in {NoCall} \cup Call(P, m)
  PROVE  x \in {NoCall} \cup Call(Q, n)
<1>1. 1 .. m \subseteq 1 .. n
  OBVIOUS
<1>2. CASE x \in Call(P, m)
  BY <1>1, <1>2 DEF Call
<1> QED BY <1>2

LEMMA ContentFacts ==
  ASSUME EditsTypeOK, NEW p \in DOMAIN pipelines
  PROVE  answered[p] \in Content /\ pipelines[p] \in PipelineStatus
BY DEF EditsTypeOK

\* Every request keeps the tables well typed, and no id is given up.
LEMMA EditsTyped ==
  ASSUME EditsTypeOK, EditNext
  PROVE  EditsTypeOK' /\ numbered <= numbered'
<1> DEFINE pipes == DOMAIN pipelines
<1>0. /\ sqlite \in BOOLEAN /\ clashed \in BOOLEAN /\ requests \in Nat
      /\ pipelines \in Seq(PipelineStatus)
      /\ numbered \in Nat /\ DOMAIN edges \subseteq 1 .. numbered /\ Table(edges, pipes)
      /\ answered \in Seq(Content) /\ DOMAIN answered = DOMAIN pipelines
      /\ calls \in [Caller -> {NoCall} \cup Call(pipes, numbered)]
  BY DEF EditsTypeOK, Table, Call
<1>1. SUFFICES /\ sqlite' \in BOOLEAN /\ clashed' \in BOOLEAN /\ requests' \in Nat
               /\ pipelines' \in Seq(PipelineStatus)
               /\ numbered' \in Nat /\ DOMAIN edges' \subseteq 1 .. numbered'
               /\ Table(edges', DOMAIN pipelines')
               /\ answered' \in Seq(Content) /\ DOMAIN answered' = DOMAIN pipelines'
               /\ calls' \in [Caller -> {NoCall} \cup Call(DOMAIN pipelines', numbered')]
               /\ numbered <= numbered'
  BY DEF EditsTypeOK, Table, Call
<1>2. ASSUME NEW es \in SentLists, CreatePipeline(es)
      PROVE  <1>1!1
  <2>1. /\ pipelines' = Append(pipelines, "active") /\ calls' = calls /\ sqlite' = sqlite
        /\ edges' = Inserted(Len(pipelines'), es) /\ Numbered(Inserted(Len(pipelines'), es))
        /\ answered' = Append(answered, [status |-> "active", edges |-> es])
        /\ requests' \in Nat /\ clashed' = clashed
    BY <1>0, <1>2 DEF CreatePipeline, Receive
  <2>2. es \in Seq(Edge) /\ "active" \in PipelineStatus
    BY EditsAssumption DEF PipelineStatus
  <2>3. pipelines' \in Seq(PipelineStatus) /\ answered' \in Seq(Content)
    BY <1>0, <2>1, <2>2 DEF Content
  <2>4. /\ DOMAIN pipelines' = 1 .. Len(pipelines) + 1 /\ pipes = 1 .. Len(pipelines)
        /\ Len(pipelines') = Len(pipelines) + 1 /\ Len(pipelines) \in Nat
        /\ DOMAIN answered' = 1 .. Len(answered) + 1 /\ Len(answered) = Len(pipelines)
    BY <1>0, <2>1
  <2>5. pipes \subseteq DOMAIN pipelines' /\ Len(pipelines') \in DOMAIN pipelines'
    BY <2>4
  <2>6. /\ numbered' \in Nat /\ numbered <= numbered'
        /\ DOMAIN edges' \subseteq 1 .. numbered' /\ Table(edges', DOMAIN pipelines')
    <3> HIDE DEF pipes
    <3> QED BY <2>1, <2>2, <2>5, InsertedTyped DEF pipes
  <2>7. calls' \in [Caller -> {NoCall} \cup Call(DOMAIN pipelines', numbered')]
    <3>1. \A c \in Caller : calls[c] \in {NoCall} \cup Call(DOMAIN pipelines', numbered')
      BY <1>0, <2>5, <2>6, CallGrows
    <3> QED BY <1>0, <2>1, <3>1
  <2> QED BY <1>0, <2>1, <2>3, <2>4, <2>6, <2>7
<1>3. ASSUME NEW c \in Caller, NEW p \in pipes, NEW body, Begin(c, p, body),
             body.status \in PipelineStatus \cup {None}, body.edges \in Seq(Edge) \cup {None}
      PROVE  <1>1!1
  <2>1. /\ UNCHANGED <<sqlite, pipelines, edges, numbered, answered>>
        /\ requests' \in Nat /\ clashed' \in BOOLEAN
    BY <1>0, <1>3 DEF Begin, Receive, tableVars
  <2>2. \E x \in Call(pipes, numbered) : calls' = [calls EXCEPT ![c] = x]
    <3>1. RowsOfPipeline(p) \subseteq 1 .. numbered
      BY <1>0 DEF RowsOfPipeline
    <3> DEFINE status == IF body.status = pipelines[p] THEN None ELSE body.status
               existing == IF body.edges = None THEN {} ELSE RowsOfPipeline(p)
               x == [pipeline |-> p, status |-> status, edges |-> body.edges,
                     existing |-> existing]
    <3>2. calls' = [calls EXCEPT ![c] = x]
      BY <1>3 DEF Begin
    <3>3. status \in PipelineStatus \cup {None} /\ existing \in SUBSET (1 .. numbered)
      BY <1>3, <3>1
    <3> HIDE DEF status, existing
    <3>4. x \in Call(pipes, numbered)
      BY <1>3, <3>3 DEF Call
    <3> QED BY <3>2, <3>4
  <2>3. calls' \in [Caller -> {NoCall} \cup Call(pipes, numbered)]
    BY <1>0, <2>2
  <2> QED BY <1>0, <2>1, <2>3
<1>4. ASSUME NEW c \in Caller, CommitEdit(c)
      PROVE  <1>1!1
  <2> DEFINE call == calls[c]
             p == call.pipeline
  <2>1. /\ calls[c] # NoCall
        /\ pipelines' = [pipelines EXCEPT ![p] = Or(call.status, @)]
        /\ answered' = [answered EXCEPT ![p] = [status |-> Or(call.status, @.status),
                                                edges  |-> Or(call.edges, @.edges)]]
        /\ calls' = [calls EXCEPT ![c] = NoCall]
        /\ UNCHANGED <<sqlite, clashed, requests>>
        /\ call.edges = None => edges' = edges /\ Numbered(edges)
        /\ call.edges # None => /\ edges' = Without(Inserted(p, call.edges), call.existing)
                                /\ Numbered(Inserted(p, call.edges))
    BY <1>4 DEF CommitEdit
  <2>2. call \in Call(pipes, numbered) /\ p \in pipes
    BY <2>1, CallFacts DEF Call
  <2>3. pipelines' \in Seq(PipelineStatus) /\ DOMAIN pipelines' = pipes
    <3>1. Or(call.status, pipelines[p]) \in PipelineStatus
      BY <2>2, ContentFacts DEF Or, Call
    <3> QED BY <1>0, <2>1, <2>2, <3>1
  <2>4. answered' \in Seq(Content) /\ DOMAIN answered' = pipes
    <3>1. answered[p] \in [status : PipelineStatus, edges : Seq(Edge)]
      BY <2>2, ContentFacts DEF Content
    <3>2. [status |-> Or(call.status, answered[p].status),
           edges  |-> Or(call.edges, answered[p].edges)] \in Content
      BY <2>2, <3>1 DEF Or, Call, Content
    <3> QED BY <1>0, <2>1, <2>2, <3>2
  <2>5. /\ numbered' \in Nat /\ numbered <= numbered'
        /\ DOMAIN edges' \subseteq 1 .. numbered' /\ Table(edges', pipes)
    <3>1. CASE call.edges = None
      BY <1>0, <2>1, <3>1, NumberedFacts
    <3>2. CASE call.edges # None
      <4> DEFINE rows == Inserted(p, call.edges)
      <4>1. call.edges \in Seq(Edge)
        BY <2>2, <3>2 DEF Call
      <4>2. /\ numbered' \in Nat /\ numbered <= numbered'
            /\ DOMAIN rows \subseteq 1 .. numbered' /\ Table(rows, pipes)
        BY <2>1, <2>2, <3>2, <4>1, InsertedTyped
      <4> HIDE DEF rows
      <4>3. edges' = Without(rows, call.existing)
        BY <2>1, <3>2 DEF rows
      <4> QED BY <4>2, <4>3 DEF Without, Table
    <3> QED BY <3>1, <3>2
  <2>6. calls' \in [Caller -> {NoCall} \cup Call(pipes, numbered')]
    <3>1. \A d \in Caller : calls[d] \in {NoCall} \cup Call(pipes, numbered')
      BY <1>0, <2>5, CallGrows
    <3> QED BY <1>0, <2>1, <3>1
  <2> QED BY <1>0, <2>1, <2>3, <2>4, <2>5, <2>6
<1>5. ASSUME NEW c \in Caller, EditFails(c)
      PROVE  <1>1!1
  BY <1>0, <1>5 DEF EditFails, tableVars
<1>6. ASSUME NEW c \in Caller, NEW p \in pipes, BeginArchive(c, p)
      PROVE  <1>1!1
  <2> DEFINE body == [status |-> "archived", edges |-> None]
  <2>1. Begin(c, p, body)
    BY <1>6 DEF BeginArchive
  <2>2. body.status \in PipelineStatus \cup {None} /\ body.edges \in Seq(Edge) \cup {None}
    BY DEF PipelineStatus
  <2> HIDE DEF body
  <2> QED BY <1>3, <2>1, <2>2
<1>7. ASSUME NEW c \in Caller, NEW p \in pipes, NEW body \in Body, BeginUpdate(c, p, body)
      PROVE  <1>1!1
  <2>1. Begin(c, p, body)
    BY <1>7 DEF BeginUpdate
  <2>2. body.status \in PipelineStatus \cup {None} /\ body.edges \in Seq(Edge) \cup {None}
    BY EditsAssumption DEF Body
  <2> QED BY <1>3, <2>1, <2>2
<1> QED BY <1>2, <1>4, <1>5, <1>6, <1>7 DEF EditNext

--------------------------------------------------------------------------------
(* The ledger: rows are never taken back, and a result stands.             *)

Extends(h, g) ==
  /\ DOMAIN h = 1 .. Len(h) /\ DOMAIN g = 1 .. Len(g) /\ Len(h) \in Nat /\ Len(g) \in Nat
  /\ Len(h) <= Len(g)
  /\ \A r \in DOMAIN h : /\ g[r].job = h[r].job
                         /\ h[r].status \in Ledger!FinalStatus => g[r].status = h[r].status

LEMMA SameLedger ==
  ASSUME history \in Seq(Ledger!Row), history' = history
  PROVE  history' \in Seq(Ledger!Row) /\ Extends(history, history')
BY DEF Extends

LEMMA OpenFacts ==
  ASSUME history \in Seq(Ledger!Row), NEW j \in Job, Ledger!Open(j)
  PROVE  /\ history' \in Seq(Ledger!Row) /\ Extends(history, history')
         /\ Len(history') \in DOMAIN history' /\ history'[Len(history')].job = j
         /\ Len(history') # 0
<1>1. Ledger!NewRow(j) \in Ledger!Row /\ Ledger!NewRow(j).job = j
  BY DEF Ledger!NewRow, Ledger!Row, Ledger!RunStatus
<1>2. history' = Append(history, Ledger!NewRow(j))
  BY DEF Ledger!Open
<1>3. /\ history' \in Seq(Ledger!Row) /\ Len(history') = Len(history) + 1
      /\ history'[Len(history) + 1] = Ledger!NewRow(j)
      /\ \A r \in DOMAIN history : history'[r] = history[r]
  BY <1>1, <1>2
<1> QED BY <1>1, <1>3 DEF Extends

LEMMA CloseFacts ==
  ASSUME history \in Seq(Ledger!Row), NEW r \in DOMAIN history,
         NEW s \in Ledger!FinalStatus, Ledger!Close(r, s)
  PROVE  /\ history' \in Seq(Ledger!Row) /\ Extends(history, history')
         /\ history'[r].status = s
<1>1. history[r] \in Ledger!Row /\ history[r].status = "running"
  BY DEF Ledger!Close, Ledger!IsOpen
<1>2. history' = [history EXCEPT ![r] = [@ EXCEPT !.status = s, !.finished = TRUE]]
  BY DEF Ledger!Close
<1> DEFINE row == [history[r] EXCEPT !.status = s, !.finished = TRUE]
<1>3. row \in Ledger!Row /\ row.job = history[r].job /\ row.status = s
  BY <1>1 DEF Ledger!Row, Ledger!RunStatus
<1> HIDE DEF row
<1>4. history' = [history EXCEPT ![r] = row]
  BY <1>2 DEF row
<1>5. /\ history' \in Seq(Ledger!Row) /\ Len(history') = Len(history)
      /\ history'[r] = row
      /\ \A q \in DOMAIN history : q # r => history'[q] = history[q]
  BY <1>3, <1>4
<1>6. history[r].status \notin Ledger!FinalStatus
  BY <1>1 DEF Ledger!FinalStatus
<1> QED BY <1>3, <1>5, <1>6 DEF Extends

\* An execution keeps what it knows while others write to the tables.
LEMMA Stable ==
  ASSUME NEW x, NEW n \in Nat, NEW m \in Nat, n <= m, NEW h, NEW g, Extends(h, g),
         ExecInv(x, n, h)
  PROVE  ExecInv(x, m, g)
<1>1. Typed(x, m, g)
  <2>1. 1 .. n \subseteq 1 .. m /\ 0 .. Len(h) \subseteq 0 .. Len(g)
    BY DEF Extends
  <2> QED BY <2>1 DEF ExecInv, Typed
<1>2. RowShape(x, g)
  <2>1. RowShape(x, h)
    BY DEF ExecInv
  <2>2. DOMAIN h \subseteq DOMAIN g
    BY DEF Extends
  <2> QED BY <2>1, <2>2 DEF RowShape, Extends
<1>3. NotStale(x, g)
  <2> SUFFICES ASSUME NEW j \in Job, x.seen[j] # 0, x.own[j] # 0
               PROVE  /\ x.seen[j] >= x.own[j]
                      /\ x.seen[j] = x.own[j] => x.results[j] \in Ledger!FinalStatus
                                                 /\ x.results[j] = g[x.own[j]].status
    BY DEF NotStale
  <2>1. x.own[j] \in DOMAIN h
    BY DEF ExecInv, RowShape
  <2> QED BY <2>1 DEF ExecInv, NotStale, Extends
<1> QED BY <1>1, <1>2, <1>3 DEF ExecInv

--------------------------------------------------------------------------------
(* The edges into a node.                                                  *)

\* A set of numbers that is bounded has its largest.
LEMMA Largest ==
  ASSUME NEW S, NEW n \in Nat, S \subseteq 0 .. n, S # {}
  PROVE  \E i \in S : \A k \in S : k <= i
<1>1. S \subseteq Nat /\ \A x \in S : x <= n
  OBVIOUS
<1>2. Max(S) \in S /\ \A x \in S : x <= Max(S)
  BY <1>1, MaxFacts
<1> QED BY <1>2

\* Of parallel edges there is one that counts, and it is the one condition_map keeps.
LEMMA EffectiveFacts ==
  ASSUME NEW n \in Nat, NEW es, DOMAIN es \subseteq 1 .. n, NEW d,
         NEW u \in Upstream(es, d)
  PROVE  \E i \in EdgesInto(es, d) :
           /\ es[i].up = u /\ ~Walk!Overridden(es, i)
           /\ EffectiveCond(es, u, d) = es[i].cond
           /\ \A k \in EdgesInto(es, d) :
                es[k].up = u /\ ~Walk!Overridden(es, k) => k = i
<1> DEFINE S == EdgesBetween(es, u, d)
<1>1. S # {} /\ S \subseteq 0 .. n /\ S \subseteq EdgesInto(es, d)
  BY DEF Upstream, EdgesInto, EdgesBetween
<1>2. \E i \in S : \A k \in S : k <= i
  <2> HIDE DEF S
  <2> QED BY <1>1, Largest
<1> DEFINE i == CHOOSE i \in S : \A k \in S : k <= i
<1>3. i \in S /\ \A k \in S : k <= i
  <2> HIDE DEF S
  <2> QED BY <1>2
<1>4. EffectiveCond(es, u, d) = es[i].cond
  BY DEF EffectiveCond
<1> HIDE DEF i
<1>5. es[i].up = u /\ es[i].down = d
  BY <1>3 DEF EdgesBetween
<1>6. ~Walk!Overridden(es, i)
  <2> SUFFICES ASSUME NEW k \in EdgesBetween(es, u, d), k > i
               PROVE  FALSE
    BY <1>5 DEF Walk!Overridden, Walk!EdgesBetween, EdgesBetween
  <2> QED BY <1>1, <1>3
<1>7. ASSUME NEW k \in EdgesInto(es, d), es[k].up = u, ~Walk!Overridden(es, k)
      PROVE  k = i
  <2>1. k \in S /\ ~(i > k)
    BY <1>3, <1>5, <1>7 DEF Walk!Overridden, Walk!EdgesBetween, EdgesBetween, EdgesInto
  <2> QED BY <1>1, <1>3, <2>1
<1> QED BY <1>1, <1>3, <1>4, <1>5, <1>6, <1>7

LEMMA PermitsFacts ==
  ASSUME NEW edge \in Edge, NEW s
  PROVE  Permits(edge.cond, s) <=> Walk!Satisfied(edge, s)
BY DEF Permits, Walk!Satisfied, Edge, Condition

\* A node is skipped exactly if an edge that counts refuses it.
LEMMA BlockedFacts ==
  ASSUME NEW x, NEW n, n \in Nat, NEW h, Typed(x, n, h)
  PROVE  Blocked(x) <=> Walk!Refusing(x.edges, x.results, Current(x)) # {}
<1> DEFINE es == x.edges
           d  == Current(x)
<1>1. DOMAIN es \subseteq 1 .. n /\ \A i \in DOMAIN es : es[i] \in Edge
  BY DEF Typed
<1>2. Walk!EdgesInto(es, d) = EdgesInto(es, d) /\ EdgesInto(es, d) \subseteq DOMAIN es
  BY DEF Walk!EdgesInto, EdgesInto
<1>3. ASSUME Blocked(x)
      PROVE  Walk!Refusing(es, x.results, d) # {}
  <2>1. PICK u \in Upstream(es, d) : ~Permits(EffectiveCond(es, u, d), x.results[u])
    BY <1>3 DEF Blocked
  <2>2. PICK i \in EdgesInto(es, d) :
          es[i].up = u /\ ~Walk!Overridden(es, i) /\ EffectiveCond(es, u, d) = es[i].cond
    BY <1>1, EffectiveFacts
  <2>3. ~Walk!Satisfied(es[i], x.results[es[i].up])
    BY <1>1, <1>2, <2>1, <2>2, PermitsFacts
  <2> QED BY <1>2, <2>2, <2>3 DEF Walk!Refusing
<1>4. ASSUME Walk!Refusing(es, x.results, d) # {}
      PROVE  Blocked(x)
  <2>1. PICK k \in EdgesInto(es, d) :
          ~Walk!Overridden(es, k) /\ ~Walk!Satisfied(es[k], x.results[es[k].up])
    BY <1>2, <1>4 DEF Walk!Refusing
  <2>2. es[k].up \in Upstream(es, d)
    BY DEF Upstream
  <2>3. EffectiveCond(es, es[k].up, d) = es[k].cond
    BY <1>1, <2>1, <2>2, EffectiveFacts
  <2>4. ~Permits(es[k].cond, x.results[es[k].up])
    BY <1>1, <1>2, <2>1, PermitsFacts
  <2> QED BY <2>2, <2>3, <2>4 DEF Blocked
<1> QED BY <1>3, <1>4

--------------------------------------------------------------------------------
(* The steps of an execution.                                              *)

\* The node the loop is at: one of the pipeline that has no result yet, everything
\* upstream of it has one, and no other node of the order is at this place.
LEMMA CurrentFacts ==
  ASSUME NEW x, NEW n \in Nat, NEW h, ExecInv(x, n, h), ~Fresh(x), x.next <= Len(x.order)
  PROVE  /\ x.next \in DOMAIN x.order
         /\ Current(x) \in Nodes(x.edges) /\ Current(x) \in Job /\ ~Decided(x, Current(x))
         /\ \A u \in Upstream(x.edges, Current(x)) : Decided(x, u) /\ u # Current(x)
<1>1. x.next \in DOMAIN x.order /\ Current(x) \in Job
  <2>1. x.order \in Seq(Job) /\ x.next \in Nat \ {0}
    BY DEF ExecInv, Typed
  <2> QED BY <2>1 DEF Current
<1>2. IsTopological(x.order, x.edges)
  BY DEF ExecInv, LoopShape
<1>3. ~Decided(x, Current(x))
  BY <1>1 DEF ExecInv, LoopShape, Current, Typed
<1>4. Current(x) \in Nodes(x.edges)
  BY <1>1, <1>2 DEF IsTopological, Current
<1>5. ASSUME NEW u \in Upstream(x.edges, Current(x))
      PROVE  Decided(x, u)
  <2>1. PICK i \in EdgesInto(x.edges, Current(x)) : u = x.edges[i].up
    BY DEF Upstream
  <2>2. PICK l \in DOMAIN x.order : l < x.next /\ x.order[l] = u
    BY <1>1, <1>2, <2>1 DEF IsTopological, Current
  <2> QED BY <2>2 DEF ExecInv, LoopShape
<1> QED BY <1>1, <1>3, <1>4, <1>5

\* The edges that refuse a node are the same if the results of its upstream are.
LEMMA RefusingSame ==
  ASSUME NEW es, NEW f, NEW g, NEW j, \A u \in Upstream(es, j) : f[u] = g[u]
  PROVE  Walk!Refusing(es, f, j) = Walk!Refusing(es, g, j)
<1>1. Walk!EdgesInto(es, j) = EdgesInto(es, j)
  BY DEF Walk!EdgesInto, EdgesInto
<1>2. \A i \in EdgesInto(es, j) : f[es[i].up] = g[es[i].up]
  BY DEF Upstream
<1> QED BY <1>1, <1>2 DEF Walk!Refusing, Walk!Satisfied

\* What is upstream of a decided node is decided.
LEMMA UpstreamDecided ==
  ASSUME NEW x, NEW n \in Nat, NEW h, ExecInv(x, n, h), ~Fresh(x),
         NEW j \in Nodes(x.edges), Decided(x, j), NEW u \in Upstream(x.edges, j)
  PROVE  Decided(x, u)
<1>1. IsTopological(x.order, x.edges)
  BY DEF ExecInv, LoopShape
<1>2. PICK k \in DOMAIN x.order : x.order[k] = j /\ k < x.next
  BY <1>1 DEF IsTopological, ExecInv, LoopShape
<1>3. PICK i \in EdgesInto(x.edges, j) : u = x.edges[i].up
  BY DEF Upstream
<1>4. PICK l \in DOMAIN x.order : l < k /\ x.order[l] = u
  BY <1>1, <1>2, <1>3 DEF IsTopological
<1>5. k \in Nat /\ l \in Nat /\ x.next \in Nat
  <2>1. x.order \in Seq(Job) /\ x.next \in Nat
    BY DEF ExecInv, Typed
  <2> QED BY <2>1
<1>6. l < x.next
  BY <1>2, <1>4, <1>5
<1> QED BY <1>4, <1>6 DEF ExecInv, LoopShape

\* The loop records the result of its node and goes on.
LEMMA RecordKeeps ==
  ASSUME NEW x, NEW n \in Nat, NEW h, Len(h) \in Nat, ExecInv(x, n, h),
         ~Fresh(x), x.next <= Len(x.order),
         NEW s \in NodeResult, s # "none", s = "pending" <=> Blocked(x),
         NEW r \in 0 .. Len(h),
         r # 0 /\ x.own[Current(x)] # 0 =>
           /\ r >= x.own[Current(x)]
           /\ r = x.own[Current(x)] => s \in Ledger!FinalStatus
                                       /\ s = h[x.own[Current(x)]].status
  PROVE  ExecInv(Record([x EXCEPT !.seen[Current(x)] = r], s), n, h)
<1> DEFINE j == Current(x)
           y == Record([x EXCEPT !.seen[j] = r], s)
<1>0. Typed(x, n, h) /\ LoopShape(x) /\ RowShape(x, h) /\ Obedient(x) /\ NotStale(x, h)
  BY DEF ExecInv
<1>1. /\ x.next \in DOMAIN x.order /\ j \in Nodes(x.edges) /\ j \in Job
      /\ ~Decided(x, j) /\ \A u \in Upstream(x.edges, j) : Decided(x, u) /\ u # j
  BY CurrentFacts
<1>2. /\ y.stage = "decide" /\ y.pipeline = x.pipeline /\ y.edges = x.edges
      /\ y.order = x.order /\ y.own = x.own /\ y.next = x.next + 1
      /\ y.results = [x.results EXCEPT ![j] = s] /\ y.seen = [x.seen EXCEPT ![j] = r]
  BY <1>0 DEF Record, Current, Typed
<1>3. Typed(y, n, h)
  <2>1. y \in [stage : {"decide"}, pipeline : Nat, edges : {y.edges}, order : Seq(Job),
               next : Nat \ {0}, results : [Job -> NodeResult],
               own : [Job -> 0 .. Len(h)], seen : [Job -> 0 .. Len(h)]]
    <3> DEFINE results == [x.results EXCEPT ![j] = s]
               seen == [x.seen EXCEPT ![j] = r]
    <3>1. results \in [Job -> NodeResult] /\ seen \in [Job -> 0 .. Len(h)]
          /\ x.next + 1 \in Nat \ {0}
      <4>1. /\ x.results \in [Job -> NodeResult] /\ x.seen \in [Job -> 0 .. Len(h)]
            /\ x.next \in Nat \ {0}
        BY <1>0 DEF Typed
      <4> HIDE DEF j
      <4>2. results \in [Job -> NodeResult]
        BY <4>1
      <4>3. seen \in [Job -> 0 .. Len(h)]
        BY <4>1
      <4>4. x.next + 1 \in Nat \ {0}
        BY <4>1
      <4> QED BY <4>2, <4>3, <4>4
    <3>2. y = [x EXCEPT !.seen = seen, !.results = results, !.next = x.next + 1,
                        !.stage = "decide"]
      BY <1>0 DEF Record, Current, Typed
    <3> HIDE DEF results, seen, y
    <3> QED BY <1>0, <1>2, <3>1, <3>2 DEF Typed
  <2> QED BY <1>0, <1>2, <2>1 DEF Typed
<1> HIDE DEF y
<1>4. x.results \in [Job -> NodeResult] /\ x.seen \in [Job -> 0 .. Len(h)]
      /\ x.next \in Nat \ {0} /\ x.order \in Seq(Job)
  BY <1>0 DEF Typed
<1>5. /\ Decided(y, j) /\ y.results[j] = s /\ y.seen[j] = r
      /\ \A i \in Job \ {j} : y.results[i] = x.results[i] /\ y.seen[i] = x.seen[i]
  BY <1>1, <1>2, <1>4 DEF Decided
<1>6. LoopShape(y)
  <2>1. IsTopological(x.order, x.edges)
    BY <1>0 DEF LoopShape
  <2>2. \A k \in DOMAIN x.order : x.order[k] = j => k = x.next
    BY <1>1, <2>1 DEF IsTopological, Current
  <2>3. ASSUME NEW k \in DOMAIN x.order
        PROVE  Decided(y, x.order[k]) <=> k < x.next + 1
    <3>1. x.order[k] \in Job /\ k \in Nat
      BY <1>4
    <3>2. CASE k = x.next
      BY <1>4, <1>5, <3>2 DEF Current
    <3>3. CASE k # x.next
      <4>1. Decided(y, x.order[k]) <=> Decided(x, x.order[k])
        BY <1>5, <2>2, <3>1, <3>3 DEF Decided
      <4>2. Decided(x, x.order[k]) <=> k < x.next
        BY <1>0 DEF LoopShape
      <4> QED BY <1>4, <3>1, <3>3, <4>1, <4>2
    <3> QED BY <3>2, <3>3
  <2>4. x.next + 1 <= Len(x.order) + 1
    BY <1>4
  <2> QED BY <1>2, <2>1, <2>3, <2>4 DEF LoopShape, Fresh, Waits
<1>7. RowShape(y, h)
  <2> SUFFICES ASSUME NEW i \in Job
               PROVE  /\ y.own[i] # 0 => y.own[i] \in DOMAIN h /\ h[y.own[i]].job = i
                      /\ ~Decided(y, i) => y.seen[i] = 0
                      /\ ~Decided(y, i) => y.own[i] = 0
    BY <1>2 DEF RowShape, Waits
  <2>1. /\ x.own[i] # 0 => x.own[i] \in DOMAIN h /\ h[x.own[i]].job = i
        /\ ~Decided(x, i) => x.seen[i] = 0
        /\ ~Decided(x, i) /\ x.own[i] # 0 => i = j
    BY <1>0 DEF RowShape
  <2>2. ~Decided(y, i) => ~Decided(x, i) /\ i # j
    BY <1>5 DEF Decided
  <2> QED BY <1>2, <1>5, <2>1, <2>2
<1>8. Obedient(y)
  <2> SUFFICES ASSUME NEW i \in Nodes(x.edges), Decided(y, i)
               PROVE  y.results[i] = "pending" <=> Walk!Refusing(x.edges, y.results, i) # {}
    BY <1>2 DEF Obedient
  <2>0. ASSUME NEW u, u # j
        PROVE  y.results[u] = x.results[u]
    BY <1>2, <1>4, <2>0
  <2>1. CASE i = j
    <3>1. Walk!Refusing(x.edges, y.results, j) = Walk!Refusing(x.edges, x.results, j)
      BY <1>1, <2>0, RefusingSame
    <3> QED BY <1>0, <1>5, <2>1, <3>1, BlockedFacts
  <2>2. CASE i # j
    <3>1. Decided(x, i) /\ y.results[i] = x.results[i]
      BY <2>0, <2>2 DEF Decided
    <3>2. \A u \in Upstream(x.edges, i) : y.results[u] = x.results[u]
      BY <1>1, <2>0, <3>1, UpstreamDecided
    <3>3. Walk!Refusing(x.edges, y.results, i) = Walk!Refusing(x.edges, x.results, i)
      BY <3>2, RefusingSame
    <3> QED BY <1>0, <3>1, <3>3 DEF Obedient
  <2> QED BY <2>1, <2>2
<1>9. NotStale(y, h)
  <2> SUFFICES ASSUME NEW i \in Job, y.seen[i] # 0, y.own[i] # 0
               PROVE  /\ y.seen[i] >= y.own[i]
                      /\ y.seen[i] = y.own[i] => y.results[i] \in Ledger!FinalStatus
                                                 /\ y.results[i] = h[y.own[i]].status
    BY DEF NotStale
  <2>1. CASE i = j
    BY <1>2, <1>5, <2>1
  <2>2. CASE i # j
    BY <1>0, <1>2, <1>5, <2>2 DEF NotStale
  <2> QED BY <2>1, <2>2
<1> QED BY <1>3, <1>6, <1>7, <1>8, <1>9 DEF ExecInv, y

\* A step that changes nothing of the executions.
LEMMA OtherStep ==
  ASSUME IndInv, exec' = exec, EditsTypeOK', numbered <= numbered',
         history' \in Seq(Ledger!Row), Extends(history, history'),
         active' \subseteq Job, execs' \in Nat, others' \in Nat
  PROVE  IndInv'
<1>1. numbered \in Nat /\ numbered' \in Nat
  BY DEF IndInv, EditsTypeOK
<1>2. \A d \in Exec : ExecInv(exec[d], numbered', history')
  BY <1>1, Stable DEF IndInv
<1> QED BY <1>2 DEF IndInv

\* A step of one execution.
LEMMA OneStep ==
  ASSUME IndInv, NEW e \in Exec, NEW y, exec' = [exec EXCEPT ![e] = y],
         ExecInv(y, numbered, history'), UNCHANGED <<editVars, active, others>>,
         history' \in Seq(Ledger!Row), Extends(history, history'), execs' \in Nat
  PROVE  IndInv'
<1>1. UNCHANGED <<sqlite, pipelines, edges, numbered, calls, answered, clashed, requests>>
  BY DEF editVars, tableVars
<1>2. EditsTypeOK' /\ numbered \in Nat /\ numbered' = numbered
  BY <1>1 DEF IndInv, EditsTypeOK
<1>3. \A d \in Exec : ExecInv(exec'[d], numbered', history')
  <2> TAKE d \in Exec
  <2>1. exec'[d] = IF d = e THEN y ELSE exec[d]
    BY DEF IndInv
  <2>2. CASE d # e
    BY <1>2, <2>1, <2>2, Stable DEF IndInv
  <2> QED BY <1>2, <2>1, <2>2
<1>4. exec' = [d \in Exec |-> exec'[d]]
  BY DEF IndInv
<1> QED BY <1>2, <1>3, <1>4 DEF IndInv

LEMMA IdleFacts ==
  ASSUME NEW n \in Nat, NEW h, Len(h) \in Nat,
         NEW y \in [stage : {"idle", "start"}, pipeline : Nat, edges : {<< >>},
                    order : {<< >>}, next : {1}, results : [Job -> {"none"}],
                    own : [Job -> {0}], seen : [Job -> {0}]]
  PROVE  ExecInv(y, n, h)
<1>1. /\ y.stage \in {"idle", "start"} /\ y.edges = << >> /\ y.next = 1
      /\ \A j \in Job : y.results[j] = "none" /\ y.own[j] = 0 /\ y.seen[j] = 0
  OBVIOUS
<1>2. Typed(y, n, h)
  <2>1. << >> \in Seq(Edge) /\ Len(<< >>) = 0
    OBVIOUS
  <2>2. << >> \in [1 .. 0 -> Edge]
    BY <2>1, LenProperties
  <2>3. DOMAIN y.edges = {} /\ y.edges \in [DOMAIN y.edges -> Edge]
    BY <1>1, <2>2
  <2>4. "none" \in NodeResult /\ << >> \in Seq(Job) /\ 0 \in 0 .. Len(h)
    BY DEF NodeResult
  <2> QED BY <2>3, <2>4 DEF Typed
<1>3. LoopShape(y) /\ RowShape(y, h) /\ NotStale(y, h)
  BY <1>1 DEF LoopShape, RowShape, NotStale, Fresh, Waits, Decided
<1>4. Obedient(y)
  BY <1>1 DEF Obedient, Nodes
<1> QED BY <1>2, <1>3, <1>4 DEF ExecInv

LEMMA InitInd == Init => IndInv
<1> SUFFICES ASSUME Init PROVE IndInv
  OBVIOUS
<1>1. PICK es \in EdgeLists :
        /\ sqlite \in BOOLEAN /\ pipelines = << "active" >> /\ numbered = Len(es)
        /\ edges = [i \in DOMAIN es |-> [pipeline |-> 1, edge |-> es[i]]]
        /\ answered = << [status |-> "active", edges |-> es] >>
        /\ calls = [c \in Caller |-> NoCall] /\ clashed = FALSE
  BY DEF Init, EditsInit
<1>2. es \in Seq(Edge) /\ Len(es) \in Nat /\ DOMAIN es = 1 .. Len(es)
  BY EditsAssumption
<1>3. requests \in Nat /\ execs \in Nat /\ others \in Nat
  BY BudgetAssumption DEF Init, Budget
<1>4. "active" \in PipelineStatus /\ [status |-> "active", edges |-> es] \in Content
  BY <1>2 DEF PipelineStatus, Content
<1>5. pipelines \in Seq(PipelineStatus) /\ answered \in Seq(Content)
      /\ DOMAIN answered = 1 .. 1 /\ DOMAIN pipelines = 1 .. 1
  BY <1>1, <1>4
<1>6. Table(edges, DOMAIN pipelines) /\ DOMAIN edges \subseteq 1 .. numbered
  <2>1. \A i \in DOMAIN es : [pipeline |-> 1, edge |-> es[i]] \in [pipeline : 1 .. 1, edge : Edge]
    BY <1>2
  <2> QED BY <1>1, <1>2, <1>5, <2>1 DEF Table
<1>7. EditsTypeOK
  BY <1>1, <1>2, <1>3, <1>5, <1>6 DEF EditsTypeOK, Table
<1>8. ExecInv(IdleExec, numbered, history)
  <2>1. history = << >> /\ Len(history) \in Nat /\ numbered \in Nat
    BY <1>1, <1>2 DEF Init
  <2> QED BY <2>1, IdleFacts DEF IdleExec
<1> QED BY <1>3, <1>7, <1>8 DEF Init, IndInv

--------------------------------------------------------------------------------
(* The walk of an execution.                                               *)

Plan    == [e \in Exec |-> exec[e].edges]
Results == [e \in Exec |-> exec[e].results]
Running == [e \in Exec |-> IF Waits(exec[e]) THEN {Current(exec[e])} ELSE {}]

LEMMA RestFacts ==
  ASSUME UNCHANGED <<Plan, Results, Running>>
  PROVE  UNCHANGED Walk!walkVars
BY DEF Walk!walkVars, Plan, Results, Running, Waits

LEMMA GraphSame ==
  ASSUME NEW es
  PROVE  /\ Walk!Nodes(es) = Nodes(es) /\ (Walk!Cyclic(es) <=> Cyclic(es))
         /\ \A j : Walk!Upstream(es, j) = Upstream(es, j)
BY DEF Walk!Nodes, Nodes, Walk!Cyclic, Cyclic, Walk!Upstream, Upstream,
       Walk!EdgesInto, EdgesInto

\* What a step of an execution does to its walk.
LEMMA MapFacts ==
  ASSUME IndInv, NEW e \in Exec, NEW y, exec' = [exec EXCEPT ![e] = y]
  PROVE  /\ Plan' = [Plan EXCEPT ![e] = y.edges]
         /\ Results' = [Results EXCEPT ![e] = y.results]
         /\ Running' = [Running EXCEPT ![e] = IF Waits(y) THEN {Current(y)} ELSE {}]
<1>1. \A d \in Exec : exec'[d] = IF d = e THEN y ELSE exec[d]
  BY DEF IndInv
<1>2. Plan' = [d \in Exec |-> exec'[d].edges] /\ Results' = [d \in Exec |-> exec'[d].results]
      /\ Running' = [d \in Exec |-> IF Waits(exec'[d]) THEN {Current(exec'[d])} ELSE {}]
  BY DEF Plan, Results, Running
<1>3. \A d \in Exec : /\ Plan'[d] = IF d = e THEN y.edges ELSE Plan[d]
                      /\ Results'[d] = IF d = e THEN y.results ELSE Results[d]
                      /\ Running'[d] = IF d = e THEN IF Waits(y) THEN {Current(y)} ELSE {}
                                       ELSE Running[d]
  BY <1>1, <1>2 DEF Plan, Results, Running
<1> QED BY <1>2, <1>3 DEF Plan, Results, Running

LEMMA MapSame ==
  ASSUME exec' = exec
  PROVE  UNCHANGED Walk!walkVars
BY RestFacts DEF Plan, Results, Running

\* A step after which an execution has the same edges and results, and runs the same
\* node, is none of its walk.
LEMMA WalkRests ==
  ASSUME IndInv, NEW e \in Exec, NEW y, exec' = [exec EXCEPT ![e] = y],
         y.edges = exec[e].edges, y.results = exec[e].results,
         Waits(y) <=> Waits(exec[e]), Waits(y) => Current(y) = Current(exec[e])
  PROVE  UNCHANGED Walk!walkVars
<1>1. Plan' = Plan /\ Results' = Results /\ Running' = Running
  <2>1. /\ Plan' = [Plan EXCEPT ![e] = y.edges]
        /\ Results' = [Results EXCEPT ![e] = y.results]
        /\ Running' = [Running EXCEPT ![e] = IF Waits(y) THEN {Current(y)} ELSE {}]
    BY MapFacts
  <2>2. /\ Plan[e] = y.edges /\ Results[e] = y.results
        /\ Running[e] = IF Waits(y) THEN {Current(y)} ELSE {}
    BY DEF Plan, Results, Running
  <2>3. /\ Plan = [d \in Exec |-> Plan[d]] /\ Results = [d \in Exec |-> Results[d]]
        /\ Running = [d \in Exec |-> Running[d]]
    BY DEF Plan, Results, Running
  <2> QED BY <2>1, <2>2, <2>3
<1> QED BY <1>1, RestFacts

\* The loop is at a node to which the walk may turn.
LEMMA DueFacts ==
  ASSUME IndInv, NEW e \in Exec, exec[e].stage = "decide", exec[e].next <= Len(exec[e].order),
         NEW j, j = Current(exec[e])
  PROVE  /\ Walk!Due(e, j) /\ j \in Walk!Nodes(Plan[e])
         /\ Walk!Refusing(Plan[e], Results[e], j) # {} <=> Blocked(exec[e])
<1> DEFINE x == exec[e]
<1>1. ExecInv(x, numbered, history) /\ numbered \in Nat /\ ~Fresh(x) /\ ~Waits(x)
  BY DEF IndInv, EditsTypeOK, Fresh, Waits
<1>2. /\ j \in Nodes(x.edges) /\ j \in Job /\ ~Decided(x, j)
      /\ \A u \in Upstream(x.edges, j) : Decided(x, u)
  BY <1>1, CurrentFacts
<1>3. Plan[e] = x.edges /\ Results[e] = x.results /\ Running[e] = {}
  BY <1>1 DEF Plan, Results, Running
<1>4. Walk!Due(e, j)
  <2>1. Running[e] = {} /\ Results[e][j] = "none"
        /\ \A u \in Walk!Upstream(Plan[e], j) : Results[e][u] # "none"
    BY <1>2, <1>3, GraphSame DEF Decided
  <2> QED BY <2>1 DEF Walk!Due, Plan, Results, Running, Waits
<1>5. Walk!Refusing(x.edges, x.results, j) # {} <=> Blocked(x)
  BY <1>1, BlockedFacts DEF ExecInv
<1> QED BY <1>2, <1>3, <1>4, <1>5, GraphSame

--------------------------------------------------------------------------------
\* The edges of a pipeline, read from the table, and the orders they allow.
LEMMA LoadedFacts ==
  ASSUME EditsTypeOK, NEW p, NEW order \in TopologicalOrders(EdgesOf(p))
  PROVE  /\ DOMAIN EdgesOf(p) \subseteq 1 .. numbered
         /\ EdgesOf(p) \in [DOMAIN EdgesOf(p) -> Edge]
         /\ order \in Seq(Job) /\ Len(order) \in Nat /\ DOMAIN order = 1 .. Len(order)
         /\ IsTopological(order, EdgesOf(p))
<1> DEFINE es == EdgesOf(p)
           D == DOMAIN es
           U == {es[i].up : i \in D}
           V == {es[i].down : i \in D}
           fu == [i \in D |-> es[i].up]
           fd == [i \in D |-> es[i].down]
<1>1. D \subseteq 1 .. numbered /\ numbered \in Nat /\ es \in [D -> Edge]
  BY DEF EditsTypeOK, EdgesOf, RowsOfPipeline
<1>2. IsFiniteSet(D)
  <2> HIDE DEF D
  <2>1. 1 \in Int /\ numbered \in Int /\ D \in SUBSET (1 .. numbered)
    BY <1>1
  <2>2. IsFiniteSet(1 .. numbered)
    BY <2>1, FS_Interval
  <2> QED BY <2>1, <2>2, FS_Subset
<1>3. fu \in Surjection(D, U) /\ fd \in Surjection(D, V)
  BY DEF Surjection
<1>4. IsFiniteSet(U) /\ IsFiniteSet(V)
  <2> HIDE DEF fu, fd, U, V, D
  <2> QED BY <1>2, <1>3, FS_Surjection
<1>5. IsFiniteSet(Nodes(es)) /\ Nodes(es) = U \cup V
  <2>1. Nodes(es) = U \cup V
    BY DEF Nodes
  <2> HIDE DEF U, V, es
  <2> QED BY <1>4, <2>1, FS_Union
<1>6. Nodes(es) \subseteq Job
  BY <1>1, <1>5 DEF Edge
<1> HIDE DEF es
<1>7. Cardinality(Nodes(es)) \in Nat
  BY <1>5, FS_CardinalityType
<1>8. order \in [1 .. Cardinality(Nodes(es)) -> Nodes(es)] /\ IsTopological(order, es)
  BY DEF TopologicalOrders, es
<1>9. order \in [1 .. Cardinality(Nodes(es)) -> Job]
  BY <1>6, <1>8
<1>10. order \in Seq(Job)
  BY <1>7, <1>9
<1>11. Len(order) \in Nat /\ DOMAIN order = 1 .. Len(order)
  BY <1>10
<1> QED BY <1>1, <1>8, <1>10, <1>11 DEF es

LEMMA TriggerStep ==
  ASSUME IndInv, NEW e \in Exec, NEW p \in DOMAIN pipelines, Trigger(e, p)
  PROVE  IndInv' /\ UNCHANGED Walk!walkVars
<1> DEFINE y == [IdleExec EXCEPT !.stage = "start", !.pipeline = p]
<1>1. /\ exec' = [exec EXCEPT ![e] = y] /\ exec[e].stage = "idle"
      /\ UNCHANGED <<editVars, history, active, others>> /\ execs' \in Nat
  BY DEF Trigger, IndInv
<1>2. p \in Nat /\ numbered \in Nat /\ Len(history) \in Nat
  BY DEF IndInv, EditsTypeOK
<1>3. y \in [stage : {"idle", "start"}, pipeline : Nat, edges : {<< >>}, order : {<< >>},
             next : {1}, results : [Job -> {"none"}], own : [Job -> {0}], seen : [Job -> {0}]]
      /\ y.stage = "start" /\ y.edges = << >> /\ y.results = [j \in Job |-> "none"]
  BY <1>2 DEF IdleExec
<1> HIDE DEF y
<1>4. ExecInv(y, numbered, history)
  BY <1>2, <1>3, IdleFacts
<1>5. history' \in Seq(Ledger!Row) /\ Extends(history, history')
  BY <1>1, SameLedger DEF IndInv
<1>6. IndInv'
  BY <1>1, <1>4, <1>5, OneStep
<1>7. exec[e].edges = << >> /\ exec[e].results = y.results
  <2>1. LoopShape(exec[e]) /\ exec[e].results \in [Job -> NodeResult] /\ Fresh(exec[e])
    BY <1>1 DEF IndInv, ExecInv, Typed, Fresh
  <2>2. exec[e].edges = << >> /\ \A j \in Job : exec[e].results[j] = "none"
    BY <2>1 DEF LoopShape, Decided
  <2>3. exec[e].results = [j \in Job |-> exec[e].results[j]]
    BY <2>1
  <2> QED BY <1>3, <2>2, <2>3
<1>8. ~Waits(y) /\ ~Waits(exec[e])
  BY <1>1, <1>3 DEF Waits
<1> QED BY <1>1, <1>3, <1>6, <1>7, <1>8, WalkRests

LEMMA StartStep ==
  ASSUME IndInv, NEW e \in Exec, Start(e)
  PROVE  IndInv' /\ [Walk!Next]_(Walk!walkVars)
<1> DEFINE x == exec[e]
           es == EdgesOf(x.pipeline)
<1>1. /\ x.stage = "start" /\ UNCHANGED <<editVars, history, active, execs, others>>
  BY DEF Start
<1>2. ExecInv(x, numbered, history) /\ numbered \in Nat /\ Len(history) \in Nat
  BY DEF IndInv, EditsTypeOK
<1>3. history' \in Seq(Ledger!Row) /\ Extends(history, history') /\ execs' \in Nat
  BY <1>1, SameLedger DEF IndInv
<1>4. /\ x.edges = << >> /\ x.results = [j \in Job |-> "none"] /\ ~Waits(x)
  <2>1. LoopShape(x) /\ x.results \in [Job -> NodeResult] /\ Fresh(x)
    BY <1>1, <1>2 DEF ExecInv, Typed, Fresh
  <2>2. x.edges = << >> /\ \A j \in Job : x.results[j] = "none"
    BY <2>1 DEF LoopShape, Decided
  <2>3. x.results = [j \in Job |-> x.results[j]]
    BY <2>1
  <2> QED BY <1>1, <2>2, <2>3 DEF Waits
<1>5. CASE exec' = [exec EXCEPT ![e] = IdleExec]
  <2>1. ExecInv(IdleExec, numbered, history)
    BY <1>2, IdleFacts DEF IdleExec
  <2>2. IndInv'
    BY <1>1, <1>3, <1>5, <2>1, OneStep
  <2>3. IdleExec.edges = << >> /\ IdleExec.results = [j \in Job |-> "none"] /\ ~Waits(IdleExec)
    BY DEF IdleExec, Waits
  <2> QED BY <1>4, <1>5, <2>2, <2>3, WalkRests
<1>6. CASE DOMAIN es # {} /\ ~Cyclic(es)
           /\ \E order \in TopologicalOrders(es) :
                exec' = [exec EXCEPT ![e].stage = "decide", ![e].edges = es, ![e].order = order]
  <2>1. PICK order \in TopologicalOrders(es) :
          exec' = [exec EXCEPT ![e].stage = "decide", ![e].edges = es, ![e].order = order]
    BY <1>6
  <2> DEFINE y == [x EXCEPT !.stage = "decide", !.edges = es, !.order = order]
  <2>2. exec' = [exec EXCEPT ![e] = y]
    BY <2>1 DEF IndInv
  <2>3. /\ DOMAIN es \subseteq 1 .. numbered /\ es \in [DOMAIN es -> Edge]
        /\ order \in Seq(Job) /\ Len(order) \in Nat /\ DOMAIN order = 1 .. Len(order)
        /\ IsTopological(order, es)
    BY LoadedFacts DEF IndInv
  <2>4. Typed(x, numbered, history)
    BY <1>2 DEF ExecInv
  <2> HIDE DEF es
  <2>5. /\ y.stage = "decide" /\ y.edges = es /\ y.order = order /\ y.next = x.next
        /\ y.results = x.results /\ y.own = x.own /\ y.seen = x.seen
    BY <2>4 DEF Typed
  <2>6. Typed(y, numbered, history)
    BY <2>3, <2>4 DEF Typed
  <2> HIDE DEF y
  <2>7. x.next = 1 /\ \A j \in Job : ~Decided(x, j) /\ x.own[j] = 0 /\ x.seen[j] = 0
    <3>1. Fresh(x) /\ ~Waits(x)
      BY <1>1 DEF Fresh, Waits
    <3> HIDE DEF x
    <3> QED BY <1>2, <3>1 DEF ExecInv, LoopShape, RowShape
  <2>8. \A j \in Job : ~Decided(y, j)
    BY <2>5, <2>7 DEF Decided
  <2>9. LoopShape(y)
    <3>1. \A k \in DOMAIN order : ~Decided(y, order[k]) /\ ~(k < 1)
      BY <2>3, <2>8
    <3> QED BY <2>3, <2>5, <2>7, <3>1 DEF LoopShape, Fresh, Waits
  <2>10. RowShape(y, history) /\ NotStale(y, history)
    BY <2>5, <2>7 DEF RowShape, NotStale
  <2>11. Obedient(y)
    <3>1. Nodes(es) \subseteq Job
      BY <2>3 DEF Nodes, Edge
    <3> QED BY <2>5, <2>8, <3>1 DEF Obedient
  <2>12. IndInv'
    BY <1>1, <1>3, <2>2, <2>6, <2>9, <2>10, <2>11, OneStep DEF ExecInv
  <2>13. /\ Plan' = [Plan EXCEPT ![e] = es] /\ Results' = [Results EXCEPT ![e] = x.results]
         /\ Running' = [Running EXCEPT ![e] = {}]
    <3>1. ~Waits(y)
      BY <2>5 DEF Waits
    <3>2. /\ Plan' = [Plan EXCEPT ![e] = y.edges] /\ Results' = [Results EXCEPT ![e] = y.results]
          /\ Running' = [Running EXCEPT ![e] = IF Waits(y) THEN {Current(y)} ELSE {}]
      BY <2>2, MapFacts
    <3> QED BY <2>5, <3>1, <3>2
  <2>14. Plan[e] = << >> /\ Results[e] = x.results /\ Running[e] = {}
    BY <1>4 DEF Plan, Results, Running
  <2>15. Results' = Results /\ Running' = Running /\ Plan'[e] = es
    BY <2>13, <2>14 DEF Plan, Results, Running
  <2>16. Walk!Adopt(e)
    <3>1. DOMAIN Plan[e] = {}
      BY <2>14
    <3>2. DOMAIN Plan'[e] # {} /\ ~Walk!Cyclic(Plan'[e]) /\ Plan' = [Plan EXCEPT ![e] = Plan'[e]]
      BY <1>6, <2>13, <2>15, GraphSame DEF es
    <3> QED BY <2>15, <3>1, <3>2 DEF Walk!Adopt, Plan, Results, Running, Waits
  <2> QED BY <2>12, <2>16 DEF Walk!Next
<1> QED BY <1>5, <1>6 DEF Start

\* A result that is recorded, in the terms of the walk.
LEMMA RecordWalk ==
  ASSUME IndInv, NEW e \in Exec, NEW f, NEW y, exec' = [exec EXCEPT ![e] = y],
         y.stage = "decide", y.edges = exec[e].edges, y.results = f
  PROVE  /\ Plan' = Plan
         /\ Results' = [Results EXCEPT ![e] = f]
         /\ Running' = [Running EXCEPT ![e] = {}]
<1>1. /\ Plan' = [Plan EXCEPT ![e] = y.edges] /\ Results' = [Results EXCEPT ![e] = y.results]
      /\ Running' = [Running EXCEPT ![e] = IF Waits(y) THEN {Current(y)} ELSE {}]
  BY MapFacts
<1>2. ~Waits(y)
  BY DEF Waits
<1>3. Plan[e] = exec[e].edges /\ Plan = [d \in Exec |-> Plan[d]]
  BY DEF Plan
<1>4. Plan' = Plan
  BY <1>1, <1>3
<1> QED BY <1>1, <1>2, <1>4

LEMMA RecordFacts ==
  ASSUME NEW x, NEW n, NEW h, Typed(x, n, h), NEW j, j = Current(x), NEW s
  PROVE  /\ Record(x, s).stage = "decide" /\ Record(x, s).edges = x.edges
         /\ Record(x, s).results = [x.results EXCEPT ![j] = s]
BY DEF Typed, Record, Current

LEMMA NextFacts ==
  ASSUME NEW e \in Exec, NEW j \in Walk!Nodes(Plan[e]),
         Walk!Skip(e, j) \/ Walk!Run(e, j) \/ Walk!Fail(e, j)
           \/ \E s \in Walk!Ran : Walk!Return(e, j, s)
  PROVE  Walk!Next
<1>1. Plan[e] = [d \in Exec |-> exec[d].edges][e]
  BY DEF Plan
<1> QED BY <1>1, Zenon DEF Walk!Next

\* A node that raised or was skipped has its row read by no one.
LEMMA UnreadFacts ==
  ASSUME NEW x, NEW n, NEW h, Typed(x, n, h), RowShape(x, h), Current(x) \in Job,
         ~Decided(x, Current(x))
  PROVE  [x EXCEPT !.seen[Current(x)] = 0] = x
<1> DEFINE j == Current(x)
<1>1. x.seen[j] = 0 /\ x.seen = [i \in Job |-> x.seen[i]]
  BY DEF RowShape, Typed
<1>2. [x.seen EXCEPT ![j] = 0] = x.seen
  BY <1>1
<1> HIDE DEF j
<1>3. [x EXCEPT !.seen[j] = 0] = [x EXCEPT !.seen = [x.seen EXCEPT ![j] = 0]]
  BY DEF Typed
<1>4. [x EXCEPT !.seen = x.seen] = x
  BY DEF Typed
<1> QED BY <1>2, <1>3, <1>4 DEF j

LEMMA SeenFacts ==
  ASSUME NEW x, NEW n, NEW h, Typed(x, n, h), NEW seen \in [Job -> 0 .. Len(h)],
         NEW z, z = [x EXCEPT !.seen = seen]
  PROVE  /\ Typed(z, n, h) /\ Current(z) = Current(x)
         /\ z.edges = x.edges /\ z.results = x.results
<1>4. z \in [stage : {"idle", "start", "decide", "run", "read", "done"}, pipeline : Nat,
             edges : {x.edges}, order : Seq(Job), next : Nat \ {0},
             results : [Job -> NodeResult],
             own : [Job -> 0 .. Len(h)], seen : [Job -> 0 .. Len(h)]]
  BY DEF Typed
<1>5. z.edges = x.edges /\ z.results = x.results /\ z.order = x.order /\ z.next = x.next
  BY DEF Typed
<1> QED BY <1>4, <1>5 DEF Typed, Current

\* A result is recorded, whatever it was read from.
Recorded(e, j, s, r) ==
  /\ exec' = [exec EXCEPT ![e] = Record([exec[e] EXCEPT !.seen[j] = r], s)]
  /\ UNCHANGED <<editVars, history, active, execs, others>>

Noted(e, j, s) ==
  /\ Plan' = Plan /\ Results' = [Results EXCEPT ![e][j] = s]
  /\ Running' = [Running EXCEPT ![e] = {}]

LEMMA RecordStep ==
  ASSUME IndInv, NEW e \in Exec, ~Fresh(exec[e]),
         exec[e].next <= Len(exec[e].order), NEW j, j = Current(exec[e]),
         NEW s \in NodeResult, s # "none", s = "pending" <=> Blocked(exec[e]),
         NEW r \in 0 .. Len(history),
         r # 0 /\ exec[e].own[j] # 0 =>
           /\ r >= exec[e].own[j]
           /\ r = exec[e].own[j] => s \in Ledger!FinalStatus
                                    /\ s = history[exec[e].own[j]].status,
         Recorded(e, j, s, r)
  PROVE  IndInv' /\ Noted(e, j, s)
<1>1. /\ ExecInv(exec[e], numbered, history) /\ numbered \in Nat /\ Len(history) \in Nat
      /\ Typed(exec[e], numbered, history)
  BY DEF IndInv, EditsTypeOK, ExecInv
<1>2. PICK f : f = [exec[e].results EXCEPT ![j] = s]
  OBVIOUS
<1>3. PICK seen \in [Job -> 0 .. Len(history)] : seen = [exec[e].seen EXCEPT ![j] = r]
  <2>1. exec[e].seen \in [Job -> 0 .. Len(history)]
    BY <1>1 DEF Typed
  <2> QED BY <2>1
<1>4. PICK z : z = [exec[e] EXCEPT !.seen[j] = r]
  OBVIOUS
<1>5. PICK y : y = Record(z, s)
  OBVIOUS
<1>6. ExecInv(y, numbered, history)
  BY <1>1, <1>4, <1>5, RecordKeeps
<1>7. /\ history' \in Seq(Ledger!Row) /\ Extends(history, history') /\ execs' \in Nat
      /\ UNCHANGED <<editVars, active, others>> /\ history' = history
  BY SameLedger DEF IndInv, Recorded
<1>8. exec' = [exec EXCEPT ![e] = y]
  BY <1>4, <1>5 DEF Recorded
<1>9. IndInv'
  BY ONLY IndInv, <1>6, <1>7, <1>8, OneStep
<1>10. /\ Typed(z, numbered, history) /\ j = Current(z)
      /\ z.edges = exec[e].edges /\ z.results = exec[e].results
  <2>1. z = [exec[e] EXCEPT !.seen = seen]
    BY <1>3, <1>4
  <2> QED BY <1>1, <2>1, SeenFacts
<1>11. y.stage = "decide" /\ y.edges = exec[e].edges /\ y.results = f
  <2>1. y = Record(z, s)
    BY <1>5
  <2>2. y.stage = "decide" /\ y.edges = z.edges /\ y.results = [z.results EXCEPT ![j] = s]
    BY ONLY <1>10, <2>1, RecordFacts
  <2> QED BY <1>2, <1>10, <2>2
<1>12. /\ Plan' = Plan /\ Results' = [Results EXCEPT ![e] = f]
       /\ Running' = [Running EXCEPT ![e] = {}]
  BY ONLY IndInv, <1>11, <1>8, RecordWalk
<1>13. Results[e] = exec[e].results
  BY DEF Results
<1> QED BY <1>2, <1>9, <1>12, <1>13 DEF Noted

\* A node that is skipped, or cannot be run.
LEMMA DecideStep ==
  ASSUME IndInv, NEW e \in Exec, exec[e].stage = "decide",
         exec[e].next <= Len(exec[e].order), NEW j, j = Current(exec[e]),
         NEW s \in {"pending", "failed"},
         s = "pending" <=> Blocked(exec[e]),
         exec' = [exec EXCEPT ![e] = Record(exec[e], s)],
         UNCHANGED <<editVars, history, active, execs, others>>
  PROVE  IndInv' /\ Walk!Next
<1>1. /\ ExecInv(exec[e], numbered, history) /\ numbered \in Nat /\ Len(history) \in Nat
      /\ ~Fresh(exec[e]) /\ ~Waits(exec[e])
  BY DEF IndInv, EditsTypeOK, Fresh, Waits
<1>2. j \in Job /\ ~Decided(exec[e], j)
  BY <1>1, CurrentFacts
<1>3. [exec[e] EXCEPT !.seen[j] = 0] = exec[e]
  BY <1>1, <1>2, UnreadFacts DEF ExecInv
<1>4. Recorded(e, j, s, 0)
  BY <1>3 DEF Recorded
<1>5. s \in NodeResult /\ s # "none" /\ 0 \in 0 .. Len(history)
  BY <1>1 DEF NodeResult, Ledger!RunStatus, Ledger!FinalStatus
<1>6. IndInv' /\ Noted(e, j, s)
  BY <1>1, <1>4, <1>5, RecordStep
<1>7. Running' = Running
  <2>1. Running = [d \in Exec |-> Running[d]] /\ Running[e] = {}
    BY <1>1 DEF Running
  <2> QED BY <1>6, <2>1 DEF Noted
<1>8. /\ Walk!Due(e, j) /\ j \in Walk!Nodes(Plan[e])
      /\ Walk!Refusing(Plan[e], Results[e], j) # {} <=> Blocked(exec[e])
  BY DueFacts
<1>9. CASE s = "pending"
  <2>1. Walk!Skip(e, j)
    BY <1>6, <1>7, <1>8, <1>9 DEF Noted, Walk!Skip, Plan, Results, Running, Waits
  <2> QED BY <1>6, <1>8, <2>1, NextFacts
<1>10. CASE s = "failed"
  <2>1. Walk!Fail(e, j)
    BY <1>6, <1>7, <1>8, <1>10 DEF Noted, Walk!Fail, Plan, Results, Running, Waits
  <2> QED BY <1>6, <1>8, <2>1, NextFacts
<1> QED BY <1>9, <1>10

LEMMA SkipStep ==
  ASSUME IndInv, NEW e \in Exec, Skip(e)
  PROVE  IndInv' /\ Walk!Next
<1>1. PICK j : j = Current(exec[e])
  OBVIOUS
<1> QED BY <1>1, DecideStep DEF Skip, Refused

\* The node that runs comes to a result.
LEMMA ReturnStep ==
  ASSUME IndInv, NEW e \in Exec, Waits(exec[e]), NEW j, j = Current(exec[e]),
         NEW s \in Walk!Ran, NEW r \in 0 .. Len(history),
         r # 0 /\ exec[e].own[j] # 0 =>
           /\ r >= exec[e].own[j]
           /\ r = exec[e].own[j] => s \in Ledger!FinalStatus
                                    /\ s = history[exec[e].own[j]].status,
         Recorded(e, j, s, r)
  PROVE  IndInv' /\ Walk!Next
<1>1. /\ ExecInv(exec[e], numbered, history) /\ numbered \in Nat /\ Len(history) \in Nat
      /\ ~Fresh(exec[e])
  BY DEF IndInv, EditsTypeOK, Fresh, Waits
<1>2. exec[e].next <= Len(exec[e].order) /\ ~Blocked(exec[e])
  BY <1>1 DEF ExecInv, LoopShape
<1>3. s \in NodeResult /\ s # "none" /\ s # "pending"
  BY DEF NodeResult, Ledger!RunStatus, Ledger!FinalStatus, Walk!Ran
<1>4. IndInv' /\ Noted(e, j, s)
  BY <1>1, <1>2, <1>3, RecordStep
<1>5. j \in Walk!Nodes(Plan[e])
  BY <1>1, <1>2, CurrentFacts, GraphSame DEF Plan
<1>6. j \in Running[e]
  BY DEF Running
<1>7. Walk!Return(e, j, s)
  BY <1>4, <1>6 DEF Noted, Walk!Return, Plan, Results, Running, Waits
<1> QED BY <1>4, <1>5, <1>7, NextFacts

LEMMA NodeRaisesStep ==
  ASSUME IndInv, NEW e \in Exec, NodeRaises(e)
  PROVE  IndInv' /\ Walk!Next
<1>1. PICK j : j = Current(exec[e])
  OBVIOUS
<1>2. /\ exec' = [exec EXCEPT ![e] = Record(exec[e], "failed")]
      /\ UNCHANGED <<editVars, history, active, execs, others>>
      /\ Allowed(exec[e]) \/ Waits(exec[e])
  BY DEF NodeRaises, InNode, Waits
<1>3. CASE Allowed(exec[e])
  BY <1>1, <1>2, <1>3, DecideStep DEF Allowed
<1>4. CASE Waits(exec[e])
  <2>1. /\ ExecInv(exec[e], numbered, history) /\ numbered \in Nat /\ Len(history) \in Nat
        /\ ~Fresh(exec[e])
    BY <1>4 DEF IndInv, EditsTypeOK, Fresh, Waits
  <2>2. exec[e].next <= Len(exec[e].order)
    BY <1>4, <2>1 DEF ExecInv, LoopShape
  <2>3. j \in Job /\ ~Decided(exec[e], j)
    BY <1>1, <2>1, <2>2, CurrentFacts
  <2>4. [exec[e] EXCEPT !.seen[j] = 0] = exec[e]
    BY <1>1, <2>1, <2>3, UnreadFacts DEF ExecInv
  <2>5. Recorded(e, j, "failed", 0)
    BY <1>2, <2>4 DEF Recorded
  <2>6. "failed" \in Walk!Ran /\ 0 \in 0 .. Len(history)
    BY <2>1 DEF Walk!Ran
  <2> QED BY <1>1, <1>4, <2>5, <2>6, ReturnStep
<1> QED BY <1>2, <1>3, <1>4

LEMMA LastRowFacts ==
  ASSUME history \in Seq(Ledger!Row), NEW j
  PROVE  /\ LastRow(j) \in 0 .. Len(history)
         /\ LastRow(j) # 0 => LastRow(j) \in DOMAIN history
         /\ \A q \in DOMAIN history : history[q].job = j => q <= LastRow(j)
<1>1. RowsOf(j) \subseteq DOMAIN history /\ DOMAIN history = 1 .. Len(history)
      /\ Len(history) \in Nat /\ RowsOf(j) \subseteq 0 .. Len(history)
  BY DEF RowsOf
<1>2. CASE RowsOf(j) = {}
  BY <1>1, <1>2 DEF LastRow, RowsOf
<1>3. CASE RowsOf(j) # {}
  <2>1. \E r \in RowsOf(j) : \A q \in RowsOf(j) : q <= r
    BY <1>1, <1>3, Largest
  <2>2. LastRow(j) \in RowsOf(j) /\ \A q \in RowsOf(j) : q <= LastRow(j)
    BY <1>3, <2>1 DEF LastRow
  <2> QED BY <1>1, <2>2 DEF RowsOf
<1> QED BY <1>2, <1>3

LEMMA ReadResultStep ==
  ASSUME IndInv, NEW e \in Exec, ReadResult(e)
  PROVE  IndInv' /\ Walk!Next
<1>1. PICK j : j = Current(exec[e])
  OBVIOUS
<1>2. PICK r : r = LastRow(j)
  OBVIOUS
<1>3. PICK s : s = IF r = 0 THEN "failed" ELSE history[r].status
  OBVIOUS
<1>4. Recorded(e, j, s, r) /\ exec[e].stage = "read"
  BY <1>1, <1>2, <1>3 DEF Recorded, ReadResult
<1>5. /\ ExecInv(exec[e], numbered, history) /\ numbered \in Nat /\ Len(history) \in Nat
      /\ ~Fresh(exec[e]) /\ Waits(exec[e]) /\ history \in Seq(Ledger!Row)
  BY <1>4 DEF IndInv, EditsTypeOK, Fresh, Waits
<1>6. j \in Job
  <2>1. exec[e].next <= Len(exec[e].order)
    BY <1>5 DEF ExecInv, LoopShape
  <2> QED BY <1>1, <1>5, <2>1, CurrentFacts
<1>7. /\ r \in 0 .. Len(history)
      /\ r # 0 => r \in DOMAIN history
      /\ \A q \in DOMAIN history : history[q].job = j => q <= r
  BY <1>2, <1>5, LastRowFacts
<1>8. s \in Walk!Ran
  <2>1. \A q \in DOMAIN history : history[q] \in Ledger!Row
    BY <1>5
  <2>2. r # 0 => history[r].status \in Ledger!RunStatus
    BY <1>7, <2>1 DEF Ledger!Row
  <2> QED BY <1>3, <2>2 DEF Walk!Ran, Ledger!RunStatus, Ledger!FinalStatus
<1>9. ASSUME r # 0, exec[e].own[j] # 0
      PROVE  /\ r >= exec[e].own[j]
             /\ r = exec[e].own[j] => s \in Ledger!FinalStatus
                                      /\ s = history[exec[e].own[j]].status
  <2>1. /\ exec[e].own[j] \in DOMAIN history /\ history[exec[e].own[j]].job = j
        /\ history[exec[e].own[j]].status \in Ledger!FinalStatus
    BY <1>1, <1>4, <1>5, <1>6, <1>9 DEF ExecInv, RowShape
  <2>2. exec[e].own[j] <= r /\ exec[e].own[j] \in Nat
    BY <1>5, <1>7, <2>1
  <2> QED BY <1>3, <1>5, <1>7, <1>9, <2>1, <2>2
<1> QED BY <1>1, <1>4, <1>5, <1>7, <1>8, <1>9, ReturnStep

\* The row of a node and the stages of its run.
Started(x, r) == [x EXCEPT !.stage = "run", !.own = [x.own EXCEPT ![Current(x)] = r]]

LEMMA OwnFacts ==
  ASSUME NEW x, NEW n \in Nat, NEW h, h \in Seq(Ledger!Row), ExecInv(x, n, h),
         x.stage = "decide", x.next <= Len(x.order), ~Blocked(x),
         NEW r \in DOMAIN h, h[r].job = Current(x),
         NEW y, y = Started(x, r)
  PROVE  /\ ExecInv(y, n, h)
         /\ y.edges = x.edges /\ y.results = x.results /\ Current(y) = Current(x) /\ Waits(y)
<1> PICK own : own = [x.own EXCEPT ![Current(x)] = r]
  OBVIOUS
<1>1. y = [x EXCEPT !.stage = "run", !.own = own]
  BY DEF Started
<1>2. /\ Typed(x, n, h) /\ LoopShape(x) /\ RowShape(x, h) /\ Obedient(x) /\ NotStale(x, h)
      /\ ~Fresh(x) /\ ~Waits(x)
  BY DEF ExecInv, Fresh, Waits
<1>3. Current(x) \in Job /\ ~Decided(x, Current(x))
  BY <1>2, CurrentFacts
<1>4. r \in 0 .. Len(h) /\ r # 0
  <2>1. DOMAIN h = 1 .. Len(h) /\ Len(h) \in Nat
    OBVIOUS
  <2> QED BY <2>1
<1>5. own \in [Job -> 0 .. Len(h)]
  <2>1. x.own \in [Job -> 0 .. Len(h)]
    BY <1>2 DEF Typed
  <2> QED BY <1>4, <2>1
<1>6. /\ y.stage = "run" /\ y.edges = x.edges /\ y.order = x.order /\ y.next = x.next
      /\ y.results = x.results /\ y.own = own /\ y.seen = x.seen
  BY <1>2, <1>1 DEF Typed
<1>7. Typed(y, n, h)
  BY <1>2, <1>1, <1>5 DEF Typed
<1>8. Current(y) = Current(x) /\ Waits(y) /\ ~Fresh(y) /\ ~Blocked(y)
  BY <1>6 DEF Current, Waits, Fresh, Blocked
<1>9. LoopShape(y)
  BY <1>2, <1>6, <1>8 DEF LoopShape, Decided
<1>10. own[Current(x)] = r /\ \A j \in Job \ {Current(x)} : own[j] = x.own[j]
  <2>1. x.own \in [Job -> 0 .. Len(h)]
    BY <1>2 DEF Typed
  <2> QED BY <1>3, <2>1
<1>11. x.seen[Current(x)] = 0
  BY <1>2, <1>3 DEF RowShape
<1>12. RowShape(y, h)
  <2> SUFFICES ASSUME NEW j \in Job
               PROVE  /\ y.own[j] # 0 => y.own[j] \in DOMAIN h /\ h[y.own[j]].job = j
                      /\ ~Decided(y, j) => y.seen[j] = 0
                      /\ ~Decided(y, j) /\ y.own[j] # 0 => j = Current(y)
                      /\ j = Current(y) => y.own[j] # 0
    BY <1>6, <1>8 DEF RowShape
  <2>1. /\ x.own[j] # 0 => x.own[j] \in DOMAIN h /\ h[x.own[j]].job = j
        /\ ~Decided(x, j) => x.seen[j] = 0
        /\ ~Decided(x, j) => x.own[j] = 0
    BY <1>2 DEF RowShape
  <2>2. Decided(y, j) <=> Decided(x, j)
    BY <1>6 DEF Decided
  <2> QED BY <1>4, <1>6, <1>8, <1>10, <2>1, <2>2
<1>13. Obedient(y)
  BY <1>2, <1>6 DEF Obedient, Decided
<1>14. NotStale(y, h)
  <2> SUFFICES ASSUME NEW j \in Job, y.seen[j] # 0, y.own[j] # 0
               PROVE  /\ y.seen[j] >= y.own[j]
                      /\ y.seen[j] = y.own[j] => y.results[j] \in Ledger!FinalStatus
                                                 /\ y.results[j] = h[y.own[j]].status
    BY DEF NotStale
  <2>1. j # Current(x)
    BY <1>6, <1>11
  <2> QED BY <1>2, <1>6, <1>10, <2>1 DEF NotStale
<1> QED BY <1>6, <1>7, <1>8, <1>9, <1>12, <1>13, <1>14 DEF ExecInv

LEMMA StageFacts ==
  ASSUME NEW x, NEW n \in Nat, NEW h, ExecInv(x, n, h), ~Fresh(x),
         NEW stage \in {"read", "done"},
         stage = "read" =>
           /\ x.next <= Len(x.order) /\ ~Blocked(x)
           /\ x.own[Current(x)] # 0 => h[x.own[Current(x)]].status \in Ledger!FinalStatus,
         stage = "done" => ~Waits(x),
         NEW y, y = [x EXCEPT !.stage = stage]
  PROVE  /\ ExecInv(y, n, h)
         /\ y.edges = x.edges /\ y.results = x.results /\ Current(y) = Current(x)
         /\ Waits(y) <=> stage = "read"
<1>0. Typed(x, n, h) /\ LoopShape(x) /\ RowShape(x, h) /\ Obedient(x) /\ NotStale(x, h)
  BY DEF ExecInv
<1>1. /\ y.stage = stage /\ y.edges = x.edges /\ y.order = x.order /\ y.next = x.next
      /\ y.results = x.results /\ y.own = x.own /\ y.seen = x.seen
  BY <1>0 DEF Typed
<1>2. Typed(y, n, h)
  BY <1>0 DEF Typed
<1>3. /\ Current(y) = Current(x) /\ (Waits(y) <=> stage = "read") /\ ~Fresh(y)
      /\ (Blocked(y) <=> Blocked(x))
  BY <1>1 DEF Current, Waits, Fresh, Blocked
<1>4. LoopShape(y)
  BY <1>0, <1>1, <1>3 DEF LoopShape, Decided
<1>5. RowShape(y, h)
  BY <1>0, <1>1, <1>3 DEF RowShape, Decided
<1>6. Obedient(y) /\ NotStale(y, h)
  BY <1>0, <1>1 DEF Obedient, NotStale, Decided
<1> QED BY <1>1, <1>2, <1>3, <1>4, <1>5, <1>6 DEF ExecInv

\* A node that runs, in the terms of the walk.
LEMMA RunWalk ==
  ASSUME IndInv, NEW e \in Exec, Allowed(exec[e]), NEW j, j = Current(exec[e]),
         NEW y, exec' = [exec EXCEPT ![e] = y], y.edges = exec[e].edges,
         y.results = exec[e].results, Waits(y), Current(y) = j
  PROVE  Walk!Next
<1>1. /\ Walk!Due(e, j) /\ j \in Walk!Nodes(Plan[e])
      /\ Walk!Refusing(Plan[e], Results[e], j) # {} <=> Blocked(exec[e])
  BY DueFacts DEF Allowed
<1>2. /\ Plan' = [Plan EXCEPT ![e] = y.edges] /\ Results' = [Results EXCEPT ![e] = y.results]
      /\ Running' = [Running EXCEPT ![e] = {j}]
  BY MapFacts
<1>3. /\ Plan = [d \in Exec |-> Plan[d]] /\ Results = [d \in Exec |-> Results[d]]
      /\ Plan[e] = exec[e].edges /\ Results[e] = exec[e].results
  BY DEF Plan, Results
<1>4. Plan' = Plan /\ Results' = Results
  BY <1>2, <1>3
<1>5. Walk!Run(e, j)
  BY <1>1, <1>2, <1>4 DEF Allowed, Walk!Run, Plan, Results, Running, Waits
<1> QED BY <1>1, <1>5, NextFacts

LEMMA RunNodeStep ==
  ASSUME IndInv, NEW e \in Exec, RunNode(e)
  PROVE  IndInv' /\ Walk!Next
<1> PICK j : j = Current(exec[e])
  OBVIOUS
<1>1. /\ Allowed(exec[e]) /\ UNCHANGED <<editVars, active, execs, others>>
      /\ ExecInv(exec[e], numbered, history) /\ numbered \in Nat
      /\ history \in Seq(Ledger!Row) /\ ~Fresh(exec[e]) /\ exec[e].stage = "decide"
      /\ exec[e].next <= Len(exec[e].order) /\ ~Blocked(exec[e])
  BY DEF RunNode, IndInv, EditsTypeOK, Allowed, Fresh
<1>2. j \in Job /\ ~Decided(exec[e], j) /\ Typed(exec[e], numbered, history)
  BY <1>1, CurrentFacts DEF ExecInv
<1>3. CASE /\ Ledger!Open(j)
           /\ exec' = [exec EXCEPT ![e].stage = "run", ![e].own[j] = Len(history')]
  <2>1. /\ history' \in Seq(Ledger!Row) /\ Extends(history, history')
        /\ Len(history') \in DOMAIN history' /\ history'[Len(history')].job = j
    BY <1>1, <1>2, <1>3, OpenFacts
  <2>2. ExecInv(exec[e], numbered, history')
    BY <1>1, <2>1, Stable
  <2>3. PICK r, h : r = Len(history') /\ h = history'
    OBVIOUS
  <2>4. PICK y : y = Started(exec[e], r)
    OBVIOUS
  <2>5. /\ h \in Seq(Ledger!Row) /\ ExecInv(exec[e], numbered, h)
        /\ r \in DOMAIN h /\ h[r].job = Current(exec[e])
    BY <2>1, <2>2, <2>3
  <2>6. ExecInv(y, numbered, h) /\ y.edges = exec[e].edges /\ y.results = exec[e].results
        /\ Current(y) = j /\ Waits(y)
    BY <1>1, <2>4, <2>5, OwnFacts
  <2>7. exec' = [exec EXCEPT ![e] = y]
    <3>1. exec = [d \in Exec |-> exec[d]]
      BY DEF IndInv
    <3>2. [exec[e] EXCEPT !.stage = "run"].own = exec[e].own
      BY <1>2 DEF Typed
    <3> QED BY <1>3, <2>3, <2>4, <3>1, <3>2 DEF Started
  <2>8. IndInv'
    BY <1>1, <2>1, <2>3, <2>6, <2>7, OneStep DEF IndInv
  <2> QED BY <1>1, <2>6, <2>7, <2>8, RunWalk
<1>4. CASE exec' = [exec EXCEPT ![e].stage = "read"] /\ UNCHANGED history
  <2>1. exec[e].own[j] = 0
    BY <1>1, <1>2 DEF ExecInv, RowShape, Waits
  <2>2. PICK y : y = [exec[e] EXCEPT !.stage = "read"]
    OBVIOUS
  <2>3. ExecInv(y, numbered, history) /\ y.edges = exec[e].edges
        /\ y.results = exec[e].results /\ Current(y) = j /\ Waits(y)
    BY <1>1, <2>1, <2>2, StageFacts
  <2>4. exec' = [exec EXCEPT ![e] = y]
    BY <1>4, <2>2 DEF IndInv
  <2>5. history' \in Seq(Ledger!Row) /\ Extends(history, history')
        /\ ExecInv(y, numbered, history')
    BY <1>1, <1>4, <2>3, SameLedger
  <2>6. IndInv'
    BY <1>1, <2>4, <2>5, OneStep DEF IndInv
  <2> QED BY <1>1, <2>3, <2>4, <2>6, RunWalk
<1> QED BY <1>3, <1>4 DEF RunNode

LEMMA NodeEndsStep ==
  ASSUME IndInv, NEW e \in Exec, NodeEnds(e)
  PROVE  IndInv' /\ UNCHANGED Walk!walkVars
<1> PICK j : j = Current(exec[e])
  OBVIOUS
<1>1. /\ exec[e].stage = "run" /\ UNCHANGED <<editVars, active, execs, others>>
      /\ exec' = [exec EXCEPT ![e].stage = "read"]
      /\ ExecInv(exec[e], numbered, history) /\ numbered \in Nat
      /\ history \in Seq(Ledger!Row) /\ ~Fresh(exec[e]) /\ Waits(exec[e])
  BY DEF NodeEnds, IndInv, EditsTypeOK, Waits, Fresh
<1>2. exec[e].next <= Len(exec[e].order) /\ ~Blocked(exec[e])
  BY <1>1 DEF ExecInv, LoopShape
<1>3. PICK s \in Ledger!FinalStatus : Ledger!Close(exec[e].own[j], s)
  BY DEF NodeEnds
<1>4. exec[e].own[j] \in DOMAIN history
  <2>1. j \in Job
    BY <1>1, <1>2, CurrentFacts
  <2> QED BY <1>1, <2>1 DEF ExecInv, RowShape
<1>5. /\ history' \in Seq(Ledger!Row) /\ Extends(history, history')
      /\ history'[exec[e].own[j]].status = s
  BY <1>1, <1>3, <1>4, CloseFacts
<1>6. PICK h : h = history'
  OBVIOUS
<1>7. ExecInv(exec[e], numbered, h)
  BY <1>1, <1>5, <1>6, Stable
<1>8. PICK y : y = [exec[e] EXCEPT !.stage = "read"]
  OBVIOUS
<1>9. ExecInv(y, numbered, h) /\ y.edges = exec[e].edges
      /\ y.results = exec[e].results /\ Current(y) = j /\ Waits(y)
  <2>1. h[exec[e].own[j]].status \in Ledger!FinalStatus
    BY <1>3, <1>5, <1>6
  <2> QED BY <1>1, <1>2, <1>7, <1>8, <2>1, StageFacts
<1>10. exec' = [exec EXCEPT ![e] = y]
  BY <1>1, <1>8 DEF IndInv
<1>11. IndInv'
  BY <1>1, <1>5, <1>6, <1>9, <1>10, OneStep DEF IndInv
<1> QED BY <1>1, <1>9, <1>10, <1>11, WalkRests

LEMMA CompleteStep ==
  ASSUME IndInv, NEW e \in Exec, Complete(e)
  PROVE  IndInv' /\ UNCHANGED Walk!walkVars
<1>1. /\ exec[e].stage = "decide" /\ UNCHANGED <<editVars, history, active, execs, others>>
      /\ exec' = [exec EXCEPT ![e].stage = "done"]
      /\ ExecInv(exec[e], numbered, history) /\ numbered \in Nat
      /\ history \in Seq(Ledger!Row) /\ ~Fresh(exec[e]) /\ ~Waits(exec[e])
  BY DEF Complete, IndInv, EditsTypeOK, Waits, Fresh
<1>2. PICK y : y = [exec[e] EXCEPT !.stage = "done"]
  OBVIOUS
<1>3. ExecInv(y, numbered, history) /\ y.edges = exec[e].edges
      /\ y.results = exec[e].results /\ ~Waits(y)
  BY <1>1, <1>2, StageFacts
<1>4. exec' = [exec EXCEPT ![e] = y]
  BY <1>1, <1>2 DEF IndInv
<1>5. history' \in Seq(Ledger!Row) /\ Extends(history, history')
      /\ ExecInv(y, numbered, history')
  BY <1>1, <1>3, SameLedger
<1>6. IndInv'
  BY <1>1, <1>4, <1>5, OneStep DEF IndInv
<1> QED BY <1>1, <1>3, <1>4, <1>6, WalkRests

\* Others write to the tables, and no execution moves.
LEMMA OthersStep ==
  ASSUME IndInv,
         \/ EditNext /\ UNCHANGED <<history, active, exec, execs, others>>
         \/ \E j \in Job : OtherOpens(j) \/ Toggle(j)
         \/ \E r \in DOMAIN history, s \in Ledger!FinalStatus : OtherCloses(r, s)
         \/ UNCHANGED vars
  PROVE  IndInv' /\ UNCHANGED Walk!walkVars
<1>1. /\ EditsTypeOK /\ numbered \in Nat /\ history \in Seq(Ledger!Row)
      /\ active \subseteq Job /\ execs \in Nat /\ others \in Nat
  BY DEF IndInv, EditsTypeOK
<1>2. CASE EditNext /\ UNCHANGED <<history, active, exec, execs, others>>
  <2>1. EditsTypeOK' /\ numbered <= numbered'
    BY <1>1, <1>2, EditsTyped
  <2>2. history' \in Seq(Ledger!Row) /\ Extends(history, history')
    BY <1>1, <1>2, SameLedger
  <2> QED BY <1>1, <1>2, <2>1, <2>2, OtherStep, MapSame
<1>3. ASSUME UNCHANGED editVars
      PROVE  EditsTypeOK' /\ numbered <= numbered'
  <2>1. UNCHANGED <<sqlite, pipelines, edges, numbered, calls, answered, clashed, requests>>
    BY <1>3 DEF editVars, tableVars
  <2> QED BY <1>1, <2>1 DEF EditsTypeOK
<1>4. ASSUME NEW j \in Job, OtherOpens(j)
      PROVE  IndInv' /\ UNCHANGED Walk!walkVars
  <2>1. history' \in Seq(Ledger!Row) /\ Extends(history, history')
    BY <1>1, <1>4, OpenFacts DEF OtherOpens
  <2>2. UNCHANGED <<editVars, active, exec, execs>> /\ others' \in Nat
    BY <1>1, <1>4 DEF OtherOpens, Disturb
  <2> QED BY <1>1, <1>3, <2>1, <2>2, OtherStep, MapSame
<1>5. ASSUME NEW j \in Job, Toggle(j)
      PROVE  IndInv' /\ UNCHANGED Walk!walkVars
  <2>1. UNCHANGED <<editVars, history, exec, execs>> /\ others' \in Nat /\ active' \subseteq Job
    BY <1>1, <1>5 DEF Toggle, Disturb
  <2>2. history' \in Seq(Ledger!Row) /\ Extends(history, history')
    BY <1>1, <2>1, SameLedger
  <2> QED BY <1>1, <1>3, <2>1, <2>2, OtherStep, MapSame
<1>6. ASSUME NEW r \in DOMAIN history, NEW s \in Ledger!FinalStatus, OtherCloses(r, s)
      PROVE  IndInv' /\ UNCHANGED Walk!walkVars
  <2>1. history' \in Seq(Ledger!Row) /\ Extends(history, history')
    BY <1>1, <1>6, CloseFacts DEF OtherCloses
  <2>2. UNCHANGED <<editVars, active, exec, execs, others>>
    BY <1>6 DEF OtherCloses
  <2> QED BY <1>1, <1>3, <2>1, <2>2, OtherStep, MapSame
<1>7. CASE UNCHANGED vars
  <2>1. UNCHANGED <<editVars, history, active, exec, execs, others>>
    BY <1>7 DEF vars
  <2>2. history' \in Seq(Ledger!Row) /\ Extends(history, history')
    BY <1>1, <2>1, SameLedger
  <2> QED BY <1>1, <1>3, <2>1, <2>2, OtherStep, MapSame
<1> QED BY <1>2, <1>4, <1>5, <1>6, <1>7

\* The invariant is inductive, and a step of the program is one of the walk.
LEMMA Step ==
  ASSUME IndInv, [Next]_vars
  PROVE  IndInv' /\ [Walk!Next]_(Walk!walkVars)
<1>1. ASSUME NEW e \in Exec, Advance(e) \/ \E p \in DOMAIN pipelines : Trigger(e, p)
      PROVE  IndInv' /\ [Walk!Next]_(Walk!walkVars)
  BY <1>1, TriggerStep, StartStep, SkipStep, RunNodeStep, NodeEndsStep, NodeRaisesStep,
     ReadResultStep, CompleteStep DEF Advance
<1> QED BY <1>1, OthersStep DEF Next

LEMMA Inductive == Spec => []IndInv
<1>1. IndInv /\ [Next]_vars => IndInv'
  BY Step
<1> QED BY InitInd, <1>1, PTL DEF Spec

\* Every variable has its type, in particular every row an execution remembers is one
\* of the history, and every edge it has loaded was given an id.
THEOREM TypeCorrect == Spec => []TypeOK
<1>1. IndInv => TypeOK
  <2> SUFFICES ASSUME IndInv
               PROVE  TypeOK
    OBVIOUS
  <2>1. \A es \in Loaded : DOMAIN es \subseteq 1 .. numbered /\ es \in [DOMAIN es -> Edge]
    BY DEF IndInv, ExecInv, Typed, Loaded
  <2> DEFINE Local == [stage : {"idle", "start", "decide", "run", "read", "done"},
                       pipeline : Nat, edges : Loaded, order : Seq(Job), next : Nat \ {0},
                       results : [Job -> NodeResult],
                       own : [Job -> 0 .. Len(history)], seen : [Job -> 0 .. Len(history)]]
  <2>2. \A e \in Exec : exec[e] \in Local
    <3> SUFFICES ASSUME NEW e \in Exec
                 PROVE  exec[e] \in Local
      OBVIOUS
    <3>1. Typed(exec[e], numbered, history) /\ exec[e].edges \in Loaded
      BY DEF IndInv, ExecInv, Loaded
    <3> QED BY <3>1 DEF Typed
  <2> HIDE DEF Local
  <2>3. exec \in [Exec -> Local]
    BY <2>2 DEF IndInv
  <2> QED BY <2>1, <2>3 DEF IndInv, TypeOK, Local
<1> QED BY <1>1, Inductive, PTL

\* The results of an execution obey every edge that counts, whatever happens to the
\* pipeline, its jobs and the rows of the history meanwhile.
THEOREM EdgesAlwaysObeyed == Spec => []EdgesObeyed
<1>1. IndInv => EdgesObeyed
  BY DEF IndInv, ExecInv, Obedient, EdgesObeyed
<1> QED BY <1>1, Inductive, PTL

\* No result is older than the execution's own run of the node, however many others
\* run the same job.
THEOREM NeverStale == Spec => []ResultNotStale
<1>1. IndInv => ResultNotStale
  BY DEF IndInv, ExecInv, NotStale, ResultNotStale
<1> QED BY <1>1, Inductive, PTL

\* The runner implements the walk, for any number of executions and any pipelines.
THEOREM WalkImplemented == Spec => ImplementsWalk
<1>1. Init => Walk!Init
  BY DEF Init, Walk!Init, IdleExec
<1>2. IndInv /\ [Next]_vars => [Walk!Next]_(Walk!walkVars)
  BY Step
<1> QED BY <1>1, <1>2, Inductive, PTL DEF Spec, ImplementsWalk, Walk!Spec

--------------------------------------------------------------------------------
(* Archived pipelines.                                                     *)

\* Without a clash, at most one request in flight writes the status of a pipeline, and
\* the pipeline was not archived before it came.
StatusInv ==
  ~clashed =>
    \A c \in Caller : calls[c].status # None =>
      /\ pipelines[calls[c].pipeline] # "archived"
      /\ \A d \in Caller :
           calls[d].status # None /\ calls[d].pipeline = calls[c].pipeline => d = c

StillArchived ==
  \A p \in DOMAIN pipelines : pipelines[p] = "archived" /\ ~clashed => pipelines'[p] = "archived"

LEMMA BeginStatus ==
  ASSUME EditsTypeOK, StatusInv, NEW c \in Caller, NEW p \in DOMAIN pipelines, NEW body,
         pipelines[p] = "archived" => body.status \in {None, "archived"},
         Begin(c, p, body)
  PROVE  StatusInv'
<1>1. pipelines' = pipelines /\ clashed' = (clashed \/ Clash(p, body)) /\ calls[c] = NoCall
  BY DEF Begin, tableVars
<1>2. PICK call : /\ calls' = [calls EXCEPT ![c] = call] /\ call.pipeline = p
                  /\ call.status = IF body.status = pipelines[p] THEN None ELSE body.status
  <2>1. PICK call :
          call = [pipeline |-> p,
                  status |-> IF body.status = pipelines[p] THEN None ELSE body.status,
                  edges |-> body.edges,
                  existing |-> IF body.edges = None THEN {} ELSE RowsOfPipeline(p)]
    OBVIOUS
  <2>2. calls' = [calls EXCEPT ![c] = call]
    BY <2>1 DEF Begin
  <2>3. /\ call.pipeline = p
        /\ call.status = IF body.status = pipelines[p] THEN None ELSE body.status
    BY <2>1
  <2> QED BY <2>2, <2>3
<1>3. \A d \in Caller : calls'[d] = IF d = c THEN call ELSE calls[d]
  BY <1>2 DEF EditsTypeOK
<1> SUFFICES ASSUME ~clashed, ~Clash(p, body), NEW d \in Caller, calls'[d].status # None
             PROVE  /\ pipelines[calls'[d].pipeline] # "archived"
                    /\ \A k \in Caller : calls'[k].status # None
                         /\ calls'[k].pipeline = calls'[d].pipeline => k = d
  BY <1>1 DEF StatusInv
<1>4. call.status # None => body.status \notin {None, pipelines[p]} /\ pipelines[p] # "archived"
  BY <1>2
<1>5. call.status # None =>
        \A k \in Caller : ~(calls[k].pipeline = p /\ calls[k].status # None)
  BY <1>4 DEF Clash
<1> QED BY <1>2, <1>3, <1>4, <1>5 DEF StatusInv

LEMMA CommitStatus ==
  ASSUME EditsTypeOK, StatusInv, NEW c \in Caller, CommitEdit(c)
  PROVE  StatusInv' /\ StillArchived
<1>1. /\ calls[c] # NoCall /\ clashed' = clashed
      /\ pipelines' = [pipelines EXCEPT ![calls[c].pipeline] = Or(calls[c].status, @)]
      /\ calls' = [calls EXCEPT ![c] = NoCall]
  BY DEF CommitEdit
<1>2. \A d \in Caller : calls'[d] = IF d = c THEN NoCall ELSE calls[d]
  BY <1>1 DEF EditsTypeOK
<1>3. NoCall.status = None
  BY DEF NoCall
<1>4. \A p \in DOMAIN pipelines :
        pipelines'[p] = IF p = calls[c].pipeline /\ calls[c].status # None
                        THEN calls[c].status ELSE pipelines[p]
  BY <1>1 DEF Or
<1>5. \A d \in Caller : calls[d].status # None => calls[d].pipeline \in DOMAIN pipelines
  BY <1>3 DEF EditsTypeOK
<1>6. StatusInv'
  BY <1>1, <1>2, <1>3, <1>4, <1>5 DEF StatusInv
<1> QED BY <1>4, <1>6 DEF StatusInv, StillArchived

LEMMA EditStatus ==
  ASSUME EditsTypeOK, StatusInv, EditNext
  PROVE  StatusInv' /\ StillArchived
<1>1. ASSUME NEW es \in SentLists, CreatePipeline(es)
      PROVE  StatusInv' /\ StillArchived
  <2>1. pipelines' = Append(pipelines, "active") /\ UNCHANGED <<calls, clashed>>
    BY <1>1 DEF CreatePipeline
  <2>2. pipelines \in Seq(PipelineStatus) /\ "active" \in PipelineStatus
    BY DEF EditsTypeOK, PipelineStatus
  <2>3. \A p \in DOMAIN pipelines : pipelines'[p] = pipelines[p]
    BY <2>1, <2>2
  <2>4. \A d \in Caller : calls[d].status # None => calls[d].pipeline \in DOMAIN pipelines
    BY DEF EditsTypeOK, NoCall
  <2> QED BY <2>1, <2>3, <2>4 DEF StatusInv, StillArchived
<1>2. ASSUME NEW c \in Caller, EditFails(c)
      PROVE  StatusInv' /\ StillArchived
  <2>1. pipelines' = pipelines /\ clashed' = clashed /\ calls' = [calls EXCEPT ![c] = NoCall]
    BY <1>2 DEF EditFails, tableVars
  <2>2. \A d \in Caller : calls'[d] = IF d = c THEN NoCall ELSE calls[d]
    BY <2>1 DEF EditsTypeOK
  <2> QED BY <2>1, <2>2 DEF StatusInv, StillArchived, NoCall
<1>3. ASSUME NEW c \in Caller, NEW p \in DOMAIN pipelines, NEW body, Begin(c, p, body),
             pipelines[p] = "archived" => body.status \in {None, "archived"}
      PROVE  StatusInv' /\ StillArchived
  <2>1. pipelines' = pipelines
    BY <1>3 DEF Begin, tableVars
  <2> QED BY <1>3, <2>1, BeginStatus DEF StillArchived
<1>4. ASSUME NEW c \in Caller, NEW p \in DOMAIN pipelines, BeginArchive(c, p)
      PROVE  StatusInv' /\ StillArchived
  <2>1. PICK body : body = [status |-> "archived", edges |-> None]
    OBVIOUS
  <2>2. Begin(c, p, body) /\ body.status = "archived"
    BY <1>4, <2>1 DEF BeginArchive
  <2> QED BY <1>3, <2>2
<1>5. ASSUME NEW c \in Caller, NEW p \in DOMAIN pipelines, NEW body, BeginUpdate(c, p, body)
      PROVE  StatusInv' /\ StillArchived
  BY <1>3, <1>5 DEF BeginUpdate
<1> QED BY <1>1, <1>2, <1>4, <1>5, CommitStatus DEF EditNext

\* No request brings an archived pipeline back, unless two requests set the status of
\* one at once, for any number of requests.
THEOREM ArchivedForGood == Spec => ArchivedStays
<1>1. Init => StatusInv
  BY DEF Init, EditsInit, StatusInv, NoCall
<1>2. IndInv /\ StatusInv /\ [Next]_vars => StatusInv' /\ [StillArchived]_editVars
  <2> SUFFICES ASSUME IndInv, StatusInv, [Next]_vars
               PROVE  StatusInv' /\ [StillArchived]_editVars
    OBVIOUS
  <2>1. CASE EditNext
    BY <2>1, EditStatus DEF IndInv
  <2>2. CASE UNCHANGED editVars
    BY <2>2 DEF StatusInv, editVars, tableVars
  <2>3. EditNext \/ UNCHANGED editVars
    <3>1. CASE UNCHANGED vars
      BY <3>1 DEF vars
    <3>2. CASE Next
      BY <3>2 DEF Next, Advance, Trigger, Start, Skip, RunNode, NodeEnds, NodeRaises,
                  ReadResult, Complete, OtherOpens, Toggle, OtherCloses
    <3> QED BY <3>1, <3>2
  <2> QED BY <2>1, <2>2, <2>3
<1>3. Spec => []StatusInv
  BY <1>1, <1>2, Inductive, PTL DEF Spec
<1>4. StillArchived <=>
        \A p \in DOMAIN pipelines :
          pipelines[p] = "archived" /\ ~clashed => pipelines'[p] = "archived"
  BY DEF StillArchived
<1> QED BY <1>2, <1>3, <1>4, Inductive, PTL DEF Spec, ArchivedStays
--------------------------------------------------------------------------------
(* The edges of each pipeline are those that were answered last.           *)

RowsIn(table, p)  == {i \in DOMAIN table : table[i].pipeline = p}
EdgesIn(table, p) == [i \in RowsIn(table, p) |-> table[i].edge]

\* Without a clash the requests have left what they said, and a request in flight that
\* sets the edges of a pipeline has read those there are and is alone in this.
AnswersKept ==
  \A p \in DOMAIN pipelines :
    /\ pipelines[p] = answered[p].status
    /\ Listed(EdgesOf(p), answered[p].edges)
    /\ ~Cyclic(answered[p].edges)

SetsAlone(c) ==
  calls[c].edges # None =>
    /\ ~Cyclic(calls[c].edges)
    /\ calls[c].existing = RowsOfPipeline(calls[c].pipeline)
    /\ \A d \in Caller :
         calls[d].edges # None /\ calls[d].pipeline = calls[c].pipeline => d = c

EdgesInv == ~clashed => AnswersKept /\ \A c \in Caller : SetsAlone(c)

\* The place of a row among some rows of a finite table is one of 1 .. their number.
LEMMA RankFacts ==
  ASSUME NEW D, D \subseteq Nat, IsFiniteSet(D), NEW i \in D
  PROVE  Cardinality({k \in D : k <= i}) \in 1 .. Cardinality(D)
<1> DEFINE below == {k \in D : k <= i}
<1>1. below \in SUBSET D /\ i \in below
  OBVIOUS
<1> HIDE DEF below
<1>2. IsFiniteSet(below) /\ Cardinality(below) <= Cardinality(D)
  BY <1>1, FS_Subset
<1>3. Cardinality(below) \in Nat /\ Cardinality(D) \in Nat /\ Cardinality(below) # 0
  BY <1>1, <1>2, FS_CardinalityType, FS_EmptySet
<1>4. Cardinality(below) \in 1 .. Cardinality(D)
  BY <1>2, <1>3
<1> QED BY <1>4 DEF below

\* Edges that are those of a list without a cycle have none.
LEMMA ListedAcyclic ==
  ASSUME NEW rows, DOMAIN rows \subseteq Nat, IsFiniteSet(DOMAIN rows),
         NEW list \in Seq(Edge), Listed(rows, list), ~Cyclic(list)
  PROVE  ~Cyclic(rows)
<1>1. \A i \in DOMAIN rows : \E k \in DOMAIN list : rows[i] = list[k]
  <2> TAKE i \in DOMAIN rows
  <2>1. Cardinality({k \in DOMAIN rows : k <= i}) \in 1 .. Len(list)
    BY RankFacts DEF Listed
  <2>2. DOMAIN list = 1 .. Len(list)
    OBVIOUS
  <2> QED BY <2>1, <2>2 DEF Listed
<1>2. Nodes(rows) \subseteq Nodes(list)
  BY <1>1 DEF Nodes
<1>3. \A d, S : (\E i \in EdgesInto(rows, d) : rows[i].up \in S)
                  => \E i \in EdgesInto(list, d) : list[i].up \in S
  BY <1>1 DEF EdgesInto
<1>4. SUFFICES ASSUME Cyclic(rows) PROVE FALSE
  OBVIOUS
<1>5. PICK S \in SUBSET Nodes(rows) :
        S # {} /\ \A d \in S : \E i \in EdgesInto(rows, d) : rows[i].up \in S
  BY <1>4 DEF Cyclic
<1>6. S \in SUBSET Nodes(list) /\ \A d \in S : \E i \in EdgesInto(list, d) : list[i].up \in S
  BY <1>2, <1>3, <1>5
<1> QED BY <1>5, <1>6 DEF Cyclic

\* Rows with consecutive ids, in the order of a list, are listed.
LEMMA FreshListed ==
  ASSUME NEW list \in Seq(Edge), NEW last \in Nat, NEW rows,
         DOMAIN rows = last + 1 .. last + Len(list),
         \A i \in DOMAIN rows : rows[i] = list[i - last]
  PROVE  Listed(rows, list)
<1>1. Len(list) \in Nat
  OBVIOUS
<1>2. Cardinality(DOMAIN rows) = Len(list)
  <2>1. PICK a \in Int, b \in Int : a = last + 1 /\ b = last + Len(list)
    BY <1>1
  <2>2. Cardinality(a .. b) = IF a > b THEN 0 ELSE b - a + 1
    BY FS_Interval
  <2>3. Cardinality(a .. b) = Len(list)
    BY <1>1, <2>1, <2>2
  <2> QED BY <2>1, <2>3
<1>3. ASSUME NEW i \in DOMAIN rows
      PROVE  Cardinality({k \in DOMAIN rows : k <= i}) = i - last
  <2>1. i \in Int /\ last + 1 <= i /\ i <= last + Len(list)
    BY <1>1, <1>3
  <2>2. {k \in DOMAIN rows : k <= i} = last + 1 .. i
    BY <1>1, <2>1
  <2>3. Cardinality(last + 1 .. i) = i - last
    BY <2>1, FS_Interval
  <2> QED BY <2>2, <2>3
<1> QED BY <1>2, <1>3 DEF Listed

\* The edges of one pipeline are replaced, and get ids beyond all there are.
Replaced(table, p, new) ==
  \E last \in Nat :
    /\ \A i \in DOMAIN edges : i <= last
    /\ DOMAIN table = (DOMAIN edges \ RowsOfPipeline(p)) \cup (last + 1 .. last + Len(new))
    /\ \A i \in DOMAIN edges \ RowsOfPipeline(p) : table[i] = edges[i]
    /\ \A i \in last + 1 .. last + Len(new) :
         table[i] = [pipeline |-> p, edge |-> new[i - last]]

LEMMA InsertReplaces ==
  ASSUME EditsTypeOK, NEW p, NEW new \in Seq(Edge)
  PROVE  /\ Replaced(Without(Inserted(p, new), RowsOfPipeline(p)), p, new)
         /\ RowsOfPipeline(p) = {} => Replaced(Inserted(p, new), p, new)
<1> DEFINE table == Inserted(p, new)
           ids   == RowsOfPipeline(p)
<1>1. PICK last \in Nat :
        /\ \A i \in DOMAIN edges : i <= last
        /\ DOMAIN table = DOMAIN edges \cup (last + 1 .. last + Len(new))
        /\ \A i \in DOMAIN edges : table[i] = edges[i]
        /\ \A i \in last + 1 .. last + Len(new) :
             table[i] = [pipeline |-> p, edge |-> new[i - last]]
  BY InsertFacts
<1>2. ids \subseteq DOMAIN edges /\ DOMAIN edges \subseteq Nat
  BY DEF RowsOfPipeline, EditsTypeOK
<1>3. Len(new) \in Nat
  OBVIOUS
<1>4. \A i \in last + 1 .. last + Len(new) : i \notin ids
  BY <1>1, <1>2, <1>3
<1> HIDE DEF table, ids
<1>5. /\ DOMAIN Without(table, ids) = DOMAIN table \ ids
      /\ \A i \in DOMAIN table \ ids : Without(table, ids)[i] = table[i]
  BY DEF Without
<1>6. DOMAIN table \ ids = (DOMAIN edges \ ids) \cup (last + 1 .. last + Len(new))
  BY <1>1, <1>4
<1>7. Replaced(Without(table, ids), p, new)
  <2>1. DOMAIN Without(table, ids) = (DOMAIN edges \ ids) \cup (last + 1 .. last + Len(new))
    BY <1>5, <1>6
  <2>2. \A i \in DOMAIN edges \ ids : Without(table, ids)[i] = edges[i]
    BY <1>1, <1>5, <1>6
  <2>3. \A i \in last + 1 .. last + Len(new) :
          Without(table, ids)[i] = [pipeline |-> p, edge |-> new[i - last]]
    BY <1>1, <1>5, <1>6
  <2> QED BY <1>1, <2>1, <2>2, <2>3 DEF Replaced, ids
<1>8. ids = {} => Replaced(table, p, new)
  BY <1>1 DEF Replaced, ids
<1> QED BY <1>7, <1>8 DEF table, ids

LEMMA ReplacedFacts ==
  ASSUME EditsTypeOK, NEW p, NEW new \in Seq(Edge), NEW table, Replaced(table, p, new)
  PROVE  /\ Listed(EdgesIn(table, p), new)
         /\ \A q : q # p => /\ RowsIn(table, q) = RowsOfPipeline(q)
                            /\ EdgesIn(table, q) = EdgesOf(q)
<1>1. PICK last \in Nat :
        /\ \A i \in DOMAIN edges : i <= last
        /\ DOMAIN table = (DOMAIN edges \ RowsOfPipeline(p)) \cup (last + 1 .. last + Len(new))
        /\ \A i \in DOMAIN edges \ RowsOfPipeline(p) : table[i] = edges[i]
        /\ \A i \in last + 1 .. last + Len(new) :
             table[i] = [pipeline |-> p, edge |-> new[i - last]]
  BY DEF Replaced
<1>2. \A i \in last + 1 .. last + Len(new) :
        table[i].pipeline = p /\ table[i].edge = new[i - last]
  <2> TAKE i \in last + 1 .. last + Len(new)
  <2>1. PICK k : k = new[i - last]
    OBVIOUS
  <2>2. table[i] = [pipeline |-> p, edge |-> k]
    BY <1>1, <2>1
  <2> QED BY <2>1, <2>2
<1>3. \A i \in DOMAIN edges \ RowsOfPipeline(p) : edges[i].pipeline # p
  BY DEF RowsOfPipeline
<1>4. RowsIn(table, p) = last + 1 .. last + Len(new)
  BY <1>1, <1>2, <1>3 DEF RowsIn
<1>5. Listed(EdgesIn(table, p), new)
  <2>1. DOMAIN EdgesIn(table, p) = last + 1 .. last + Len(new)
    BY <1>4 DEF EdgesIn
  <2>2. \A i \in DOMAIN EdgesIn(table, p) : EdgesIn(table, p)[i] = new[i - last]
    BY <1>2, <1>4 DEF EdgesIn
  <2> QED BY <2>1, <2>2, FreshListed
<1>6. ASSUME NEW q, q # p
      PROVE  RowsIn(table, q) = RowsOfPipeline(q) /\ EdgesIn(table, q) = EdgesOf(q)
  <2>1. \A i : i \in DOMAIN table /\ table[i].pipeline = q
                 <=> i \in DOMAIN edges /\ edges[i].pipeline = q
    <3> TAKE i
    <3>1. i \in DOMAIN edges /\ edges[i].pipeline = q => i \in DOMAIN edges \ RowsOfPipeline(p)
      BY <1>6 DEF RowsOfPipeline
    <3> QED BY <1>1, <1>2, <1>6, <3>1
  <2>2. RowsIn(table, q) = RowsOfPipeline(q)
    BY <2>1 DEF RowsIn, RowsOfPipeline
  <2>3. \A i \in RowsOfPipeline(q) : table[i].edge = edges[i].edge
    BY <1>1, <1>6 DEF RowsOfPipeline
  <2> QED BY <2>2, <2>3 DEF EdgesIn, EdgesOf
<1> QED BY <1>5, <1>6
LEMMA BeginEdges ==
  ASSUME EditsTypeOK, EdgesInv, NEW c \in Caller, NEW p \in DOMAIN pipelines, NEW body,
         body.edges # None => ~Cyclic(body.edges), Begin(c, p, body)
  PROVE  EdgesInv'
<1>1. /\ UNCHANGED <<pipelines, edges, answered>>
      /\ clashed' = (clashed \/ Clash(p, body)) /\ calls[c] = NoCall
  BY DEF Begin, tableVars
<1>2. PICK call : /\ calls' = [calls EXCEPT ![c] = call]
                  /\ call.pipeline = p /\ call.edges = body.edges
                  /\ body.edges # None => call.existing = RowsOfPipeline(p)
  <2>1. PICK call :
          call = [pipeline |-> p,
                  status |-> IF body.status = pipelines[p] THEN None ELSE body.status,
                  edges |-> body.edges,
                  existing |-> IF body.edges = None THEN {} ELSE RowsOfPipeline(p)]
    OBVIOUS
  <2>2. calls' = [calls EXCEPT ![c] = call]
    BY <2>1 DEF Begin
  <2>3. /\ call.pipeline = p /\ call.edges = body.edges
        /\ body.edges # None => call.existing = RowsOfPipeline(p)
    BY <2>1
  <2> QED BY <2>2, <2>3
<1>3. \A d \in Caller : calls'[d] = IF d = c THEN call ELSE calls[d]
  BY <1>2 DEF EditsTypeOK
<1> SUFFICES ASSUME ~clashed, ~Clash(p, body)
             PROVE  AnswersKept' /\ \A d \in Caller : SetsAlone(d)'
  BY <1>1 DEF EdgesInv
<1>4. AnswersKept'
  BY <1>1 DEF EdgesInv, AnswersKept, EdgesOf, RowsOfPipeline
<1>5. \A q : RowsOfPipeline(q)' = RowsOfPipeline(q)
  BY <1>1 DEF RowsOfPipeline
<1>6. body.edges # None => \A k \in Caller : ~(calls[k].pipeline = p /\ calls[k].edges # None)
  BY DEF Clash
<1>7. ASSUME NEW d \in Caller, calls'[d].edges # None
      PROVE  /\ ~Cyclic(calls'[d].edges)
             /\ calls'[d].existing = RowsOfPipeline(calls'[d].pipeline)
             /\ \A k \in Caller :
                  calls'[k].edges # None /\ calls'[k].pipeline = calls'[d].pipeline => k = d
  <2>1. CASE d = c
    BY <1>2, <1>3, <1>6, <1>7, <2>1
  <2>2. CASE d # c
    <3>1. calls'[d] = calls[d] /\ SetsAlone(d)
      BY <1>3, <2>2 DEF EdgesInv
    <3> QED BY <1>2, <1>3, <1>6, <1>7, <2>2, <3>1 DEF SetsAlone
  <2> QED BY <2>1, <2>2
<1>8. ASSUME NEW d \in Caller PROVE SetsAlone(d)'
  BY <1>5, <1>7 DEF SetsAlone
<1> QED BY <1>4, <1>8

\* A request that ends is forgotten; the rows of the pipelines that the others set are
\* as they were.
LEMMA EndsAlone ==
  ASSUME EditsTypeOK, NEW c \in Caller, \A d \in Caller : SetsAlone(d),
         calls' = [calls EXCEPT ![c] = NoCall],
         \A d \in Caller : d # c /\ calls[d].edges # None =>
           RowsIn(edges', calls[d].pipeline) = RowsOfPipeline(calls[d].pipeline)
  PROVE  \A d \in Caller : SetsAlone(d)'
<1>1. \A d \in Caller : calls'[d] = IF d = c THEN NoCall ELSE calls[d]
  BY DEF EditsTypeOK
<1>2. NoCall.edges = None
  BY DEF NoCall
<1>3. \A q : RowsOfPipeline(q)' = RowsIn(edges', q)
  BY DEF RowsOfPipeline, RowsIn
<1>4. ASSUME NEW d \in Caller PROVE SetsAlone(d)'
  <2>1. CASE d = c
    BY <1>1, <1>2, <2>1 DEF SetsAlone
  <2>2. CASE d # c
    <3>1. calls'[d] = calls[d] /\ SetsAlone(d)
      BY <1>1, <2>2
    <3> QED BY <1>1, <1>2, <1>3, <2>2, <3>1 DEF SetsAlone
  <2> QED BY <2>1, <2>2
<1> QED BY <1>4

LEMMA CommitEdges ==
  ASSUME EditsTypeOK, EdgesInv, NEW c \in Caller, CommitEdit(c)
  PROVE  EdgesInv'
<1> DEFINE call == calls[c]
           p == call.pipeline
<1>1. /\ calls[c] # NoCall /\ clashed' = clashed
      /\ pipelines' = [pipelines EXCEPT ![p] = Or(call.status, @)]
      /\ answered' = [answered EXCEPT ![p] = [status |-> Or(call.status, @.status),
                                              edges  |-> Or(call.edges, @.edges)]]
      /\ calls' = [calls EXCEPT ![c] = NoCall]
      /\ call.edges = None => edges' = edges
      /\ call.edges # None => edges' = Without(Inserted(p, call.edges), call.existing)
  BY DEF CommitEdit
<1>2. p \in DOMAIN pipelines /\ call.edges \in Seq(Edge) \cup {None}
  BY <1>1, CallFacts DEF Call
<1>3. SUFFICES ASSUME ~clashed PROVE AnswersKept' /\ \A d \in Caller : SetsAlone(d)'
  BY <1>1 DEF EdgesInv
<1>4. AnswersKept /\ \A d \in Caller : SetsAlone(d)
  BY <1>3 DEF EdgesInv
<1>5. call.edges # None => Replaced(edges', p, call.edges)
  BY <1>1, <1>2, <1>4, InsertReplaces DEF SetsAlone
<1>6. call.edges # None => /\ Listed(EdgesIn(edges', p), call.edges)
                           /\ \A q : q # p => /\ RowsIn(edges', q) = RowsOfPipeline(q)
                                              /\ EdgesIn(edges', q) = EdgesOf(q)
  <2> SUFFICES ASSUME call.edges # None
               PROVE  /\ Listed(EdgesIn(edges', p), call.edges)
                      /\ \A q : q # p => /\ RowsIn(edges', q) = RowsOfPipeline(q)
                                         /\ EdgesIn(edges', q) = EdgesOf(q)
    OBVIOUS
  <2>1. call.edges \in Seq(Edge) /\ Replaced(edges', p, call.edges)
    BY <1>2, <1>5
  <2>2. PICK table : table = edges'
    OBVIOUS
  <2>3. /\ Listed(EdgesIn(table, p), call.edges)
        /\ \A q : q # p => /\ RowsIn(table, q) = RowsOfPipeline(q)
                           /\ EdgesIn(table, q) = EdgesOf(q)
    <3>1. PICK k, new : k = p /\ new = call.edges
      OBVIOUS
    <3>2. EditsTypeOK /\ new \in Seq(Edge) /\ Replaced(table, k, new)
      BY <2>1, <2>2, <3>1
    <3> HIDE DEF call, p
    <3>3. Listed(EdgesIn(table, k), new)
      BY <3>2, ReplacedFacts
    <3>4. ASSUME NEW q, q # k PROVE RowsIn(table, q) = RowsOfPipeline(q)
      BY <3>2, <3>4, ReplacedFacts
    <3>5. ASSUME NEW q, q # k PROVE EdgesIn(table, q) = EdgesOf(q)
      BY <3>2, <3>5, ReplacedFacts
    <3> QED BY <3>1, <3>3, <3>4, <3>5
  <2> QED BY <2>2, <2>3
<1>7. call.edges = None => \A q : /\ RowsIn(edges', q) = RowsOfPipeline(q)
                                  /\ EdgesIn(edges', q) = EdgesOf(q)
  BY <1>1 DEF RowsIn, EdgesIn, RowsOfPipeline, EdgesOf
<1>8. \A q : EdgesOf(q)' = EdgesIn(edges', q)
  BY DEF EdgesOf, EdgesIn, RowsOfPipeline, RowsIn
<1>9. ASSUME NEW q \in DOMAIN pipelines'
      PROVE  /\ pipelines'[q] = answered'[q].status
             /\ Listed(EdgesIn(edges', q), answered'[q].edges)
             /\ ~Cyclic(answered'[q].edges)
  <2>1. q \in DOMAIN pipelines /\ DOMAIN answered = DOMAIN pipelines
    BY <1>1 DEF EditsTypeOK
  <2>2. pipelines[q] = answered[q].status /\ Listed(EdgesOf(q), answered[q].edges)
        /\ ~Cyclic(answered[q].edges)
    BY <1>4, <2>1 DEF AnswersKept
  <2>3. CASE q # p
    <3>1. pipelines'[q] = pipelines[q] /\ answered'[q] = answered[q]
      BY <1>1, <2>1, <2>3
    <3> QED BY <1>6, <1>7, <2>2, <2>3, <3>1
  <2>4. CASE q = p
    <3>1. /\ pipelines'[q] = Or(call.status, pipelines[q])
          /\ answered'[q].status = Or(call.status, answered[q].status)
          /\ answered'[q].edges = Or(call.edges, answered[q].edges)
      BY <1>1, <2>1, <2>4
    <3>2. CASE call.edges = None
      BY <1>7, <2>2, <3>1, <3>2 DEF Or
    <3>3. CASE call.edges # None
      BY <1>4, <1>6, <2>2, <2>4, <3>1, <3>3 DEF Or, SetsAlone
    <3> QED BY <3>2, <3>3
  <2> QED BY <2>3, <2>4
<1>10. AnswersKept'
  BY <1>8, <1>9 DEF AnswersKept
<1>11. \A d \in Caller : d # c /\ calls[d].edges # None =>
         RowsIn(edges', calls[d].pipeline) = RowsOfPipeline(calls[d].pipeline)
  <2> SUFFICES ASSUME NEW d \in Caller, d # c, calls[d].edges # None
      PROVE RowsIn(edges', calls[d].pipeline) = RowsOfPipeline(calls[d].pipeline)
    OBVIOUS
  <2>1. CASE call.edges = None
    BY <1>7, <2>1
  <2>2. CASE call.edges # None
    <3>1. calls[d].pipeline # p
      BY <1>4, <2>2 DEF SetsAlone
    <3> QED BY <1>6, <2>2, <3>1
  <2> QED BY <2>1, <2>2
<1>12. \A d \in Caller : SetsAlone(d)'
  BY <1>1, <1>4, <1>11, EndsAlone
<1> QED BY <1>10, <1>12

LEMMA CreateEdges ==
  ASSUME EditsTypeOK, EdgesInv, NEW es \in SentLists, CreatePipeline(es)
  PROVE  EdgesInv'
<1> DEFINE n == Len(pipelines) + 1
<1>1. /\ pipelines' = Append(pipelines, "active") /\ UNCHANGED <<calls, clashed>>
      /\ edges' = Inserted(Len(pipelines'), es) /\ ~Cyclic(es)
      /\ answered' = Append(answered, [status |-> "active", edges |-> es])
  BY DEF CreatePipeline
<1>2. es \in Seq(Edge) /\ "active" \in PipelineStatus
      /\ [status |-> "active", edges |-> es] \in Content
  BY EditsAssumption DEF PipelineStatus, Content
<1>3. /\ pipelines \in Seq(PipelineStatus) /\ answered \in Seq(Content)
      /\ Len(pipelines) \in Nat /\ Len(answered) \in Nat
      /\ DOMAIN pipelines = 1 .. Len(pipelines) /\ DOMAIN answered = 1 .. Len(answered)
      /\ DOMAIN answered = DOMAIN pipelines
  BY DEF EditsTypeOK
<1>4. Len(answered) = Len(pipelines)
  <2>1. Len(answered) # 0 => Len(answered) \in 1 .. Len(pipelines)
    BY <1>3
  <2>2. Len(pipelines) # 0 => Len(pipelines) \in 1 .. Len(answered)
    BY <1>3
  <2>3. Len(pipelines) \in Nat /\ Len(answered) \in Nat
    BY <1>3
  <2> QED BY <2>1, <2>2, <2>3
<1>5. /\ DOMAIN pipelines' = 1 .. n /\ Len(pipelines') = n /\ n \in Nat
      /\ pipelines'[n] = "active" /\ \A q \in DOMAIN pipelines : pipelines'[q] = pipelines[q]
  BY <1>1, <1>2, <1>3
<1>6. /\ answered'[n].status = "active" /\ answered'[n].edges = es
      /\ \A q \in DOMAIN pipelines : answered'[q] = answered[q]
  <2>1. PICK new \in Content : new = [status |-> "active", edges |-> es]
    BY <1>2
  <2>2. answered' = Append(answered, new)
    BY <1>1, <2>1
  <2>3. answered'[n] = new /\ \A q \in DOMAIN pipelines : answered'[q] = answered[q]
    BY <1>3, <1>4, <2>2
  <2> QED BY <2>1, <2>3
<1>7. \A i \in DOMAIN edges : edges[i].pipeline \in DOMAIN pipelines
  BY DEF EditsTypeOK
<1>8. n \notin DOMAIN pipelines
  BY <1>3
<1>9. RowsOfPipeline(n) = {}
  BY <1>7, <1>8 DEF RowsOfPipeline
<1> HIDE DEF n
<1>10. Replaced(edges', n, es)
  BY <1>1, <1>2, <1>5, <1>9, InsertReplaces
<1>11. /\ Listed(EdgesIn(edges', n), es)
       /\ \A q : q # n => /\ RowsIn(edges', q) = RowsOfPipeline(q)
                          /\ EdgesIn(edges', q) = EdgesOf(q)
  <2>1. PICK table : table = edges'
    OBVIOUS
  <2>2. /\ Listed(EdgesIn(table, n), es)
        /\ \A q : q # n => /\ RowsIn(table, q) = RowsOfPipeline(q)
                           /\ EdgesIn(table, q) = EdgesOf(q)
    <3>1. EditsTypeOK /\ es \in Seq(Edge) /\ Replaced(table, n, es)
      BY <1>2, <1>10, <2>1
    <3>2. Listed(EdgesIn(table, n), es)
      BY <3>1, ReplacedFacts
    <3>3. ASSUME NEW q, q # n PROVE RowsIn(table, q) = RowsOfPipeline(q)
      BY <3>1, <3>3, ReplacedFacts
    <3>4. ASSUME NEW q, q # n PROVE EdgesIn(table, q) = EdgesOf(q)
      BY <3>1, <3>4, ReplacedFacts
    <3> QED BY <3>2, <3>3, <3>4
  <2> QED BY <2>1, <2>2
<1>12. SUFFICES ASSUME ~clashed PROVE AnswersKept' /\ \A d \in Caller : SetsAlone(d)'
  BY <1>1 DEF EdgesInv
<1>13. AnswersKept /\ \A d \in Caller : SetsAlone(d)
  BY <1>12 DEF EdgesInv
<1>14. \A q : EdgesOf(q)' = EdgesIn(edges', q) /\ RowsOfPipeline(q)' = RowsIn(edges', q)
  BY DEF EdgesOf, EdgesIn, RowsOfPipeline, RowsIn
<1>15. ASSUME NEW q \in DOMAIN pipelines'
       PROVE  /\ pipelines'[q] = answered'[q].status
              /\ Listed(EdgesIn(edges', q), answered'[q].edges)
              /\ ~Cyclic(answered'[q].edges)
  <2>1. CASE q = n
    BY <1>1, <1>5, <1>6, <1>11, <2>1
  <2>2. CASE q # n
    <3>1. q \in DOMAIN pipelines
      BY <1>3, <1>5, <2>2 DEF n
    <3> QED BY <1>5, <1>6, <1>11, <1>13, <2>2, <3>1 DEF AnswersKept
  <2> QED BY <2>1, <2>2
<1>16. AnswersKept'
  BY <1>14, <1>15 DEF AnswersKept
<1>17. ASSUME NEW d \in Caller PROVE SetsAlone(d)'
  <2>1. calls[d].edges # None => calls[d].pipeline # n
    <3> SUFFICES ASSUME calls[d].edges # None PROVE calls[d].pipeline # n
      OBVIOUS
    <3>1. calls[d] # NoCall
      BY DEF NoCall
    <3> QED BY <1>8, <3>1, CallFacts DEF Call
  <2>2. SetsAlone(d) /\ calls' = calls
    BY <1>1, <1>13
  <2> QED BY <1>11, <1>14, <2>1, <2>2 DEF SetsAlone
<1> QED BY <1>16, <1>17

LEMMA InitialEdges == Init => EdgesInv
<1> SUFFICES ASSUME Init PROVE EdgesInv
  OBVIOUS
<1>1. PICK es \in EdgeLists :
        /\ ~Cyclic(es) /\ pipelines = << "active" >>
        /\ edges = [i \in DOMAIN es |-> [pipeline |-> 1, edge |-> es[i]]]
        /\ answered = << [status |-> "active", edges |-> es] >>
        /\ calls = [c \in Caller |-> NoCall]
  BY DEF Init, EditsInit
<1>2. es \in Seq(Edge) /\ Len(es) \in Nat /\ DOMAIN es = 1 .. Len(es)
  BY EditsAssumption
<1>3. \A i \in DOMAIN es : edges[i].pipeline = 1 /\ edges[i].edge = es[i]
  BY <1>1
<1>4. RowsOfPipeline(1) = DOMAIN es
  BY <1>1, <1>3 DEF RowsOfPipeline
<1>5. Listed(EdgesOf(1), es)
  <2>1. DOMAIN EdgesOf(1) = 0 + 1 .. 0 + Len(es)
    BY <1>2, <1>4 DEF EdgesOf
  <2>2. \A i \in DOMAIN EdgesOf(1) : EdgesOf(1)[i] = es[i - 0]
    BY <1>2, <1>3, <1>4 DEF EdgesOf
  <2> QED BY <1>2, <2>1, <2>2, FreshListed
<1>6. DOMAIN pipelines = 1 .. 1 /\ pipelines[1] = "active"
      /\ answered[1].status = "active" /\ answered[1].edges = es
  BY <1>1
<1>7. AnswersKept
  BY <1>1, <1>5, <1>6 DEF AnswersKept
<1>8. \A c \in Caller : calls[c].edges = None
  BY <1>1 DEF NoCall
<1> QED BY <1>7, <1>8 DEF EdgesInv, SetsAlone

LEMMA EditEdges ==
  ASSUME EditsTypeOK, EdgesInv, EditNext
  PROVE  EdgesInv'
<1>1. ASSUME NEW c \in Caller, EditFails(c) PROVE EdgesInv'
  <2>1. /\ UNCHANGED <<pipelines, edges, answered, clashed>>
        /\ calls' = [calls EXCEPT ![c] = NoCall]
    BY <1>1 DEF EditFails, tableVars
  <2>2. AnswersKept => AnswersKept'
    BY <2>1 DEF AnswersKept, EdgesOf, RowsOfPipeline
  <2>3. \A q : RowsIn(edges', q) = RowsOfPipeline(q)
    BY <2>1 DEF RowsIn, RowsOfPipeline
  <2> QED BY <2>1, <2>2, <2>3, EndsAlone DEF EdgesInv
<1>2. ASSUME NEW c \in Caller, NEW p \in DOMAIN pipelines, BeginArchive(c, p) PROVE EdgesInv'
  <2>1. PICK body : body = [status |-> "archived", edges |-> None]
    OBVIOUS
  <2>2. Begin(c, p, body) /\ body.edges = None
    BY <1>2, <2>1 DEF BeginArchive
  <2> QED BY <2>2, BeginEdges
<1>3. ASSUME NEW c \in Caller, NEW p \in DOMAIN pipelines, NEW body, BeginUpdate(c, p, body)
      PROVE  EdgesInv'
  BY <1>3, BeginEdges DEF BeginUpdate
<1> QED BY <1>1, <1>2, <1>3, CommitEdges, CreateEdges DEF EditNext

\* Unless two requests ever set the same thing of one pipeline at once, every pipeline
\* has the status and, in their order, the edges that the last successful request to
\* change them said, and they have no cycle (pipelines.py:211-248): for any number of
\* pipelines and requests, with or without the reuse of row ids.
THEOREM PipelinesKept == Spec => []PipelinesAsAnswered
<1>1. IndInv /\ EdgesInv /\ [Next]_vars => EdgesInv'
  <2> SUFFICES ASSUME IndInv, EdgesInv, [Next]_vars PROVE EdgesInv'
    OBVIOUS
  <2>1. CASE EditNext
    BY <2>1, EditEdges DEF IndInv
  <2>2. CASE UNCHANGED editVars
    BY <2>2 DEF EdgesInv, AnswersKept, SetsAlone, EdgesOf, RowsOfPipeline, editVars, tableVars
  <2>3. EditNext \/ UNCHANGED editVars
    <3>1. CASE UNCHANGED vars
      BY <3>1 DEF vars
    <3>2. CASE Next
      BY <3>2 DEF Next, Advance, Trigger, Start, Skip, RunNode, NodeEnds, NodeRaises,
                  ReadResult, Complete, OtherOpens, Toggle, OtherCloses
    <3> QED BY <3>1, <3>2
  <2> QED BY <2>1, <2>2, <2>3
<1>2. Spec => []EdgesInv
  BY <1>1, InitialEdges, Inductive, PTL DEF Spec
<1>3. IndInv /\ EdgesInv => PipelinesAsAnswered
  <2> SUFFICES ASSUME IndInv, ~clashed, AnswersKept, NEW p \in DOMAIN pipelines
               PROVE  /\ pipelines[p] = answered[p].status
                      /\ Listed(EdgesOf(p), answered[p].edges)
                      /\ ~Cyclic(EdgesOf(p))
    BY DEF EdgesInv, PipelinesAsAnswered
  <2>1. /\ pipelines[p] = answered[p].status
        /\ Listed(EdgesOf(p), answered[p].edges) /\ ~Cyclic(answered[p].edges)
    BY DEF AnswersKept
  <2>2. answered[p].edges \in Seq(Edge)
    BY ContentFacts DEF IndInv, Content
  <2>3. numbered \in Nat /\ DOMAIN EdgesOf(p) \in SUBSET (1 .. numbered)
    BY DEF IndInv, EditsTypeOK, EdgesOf, RowsOfPipeline
  <2>4. IsFiniteSet(DOMAIN EdgesOf(p)) /\ DOMAIN EdgesOf(p) \subseteq Nat
    BY <2>3, FS_Interval, FS_Subset
  <2> QED BY <2>1, <2>2, <2>4, ListedAcyclic
<1> QED BY <1>2, <1>3, Inductive, PTL
================================================================================
