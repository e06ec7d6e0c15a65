----------------------------- MODULE PipelineEdits -----------------------------
(***************************************************************************)
(* The pipelines router: pipelines and their edges, created, updated and   *)
(* archived by concurrent requests.  A request loads what it changes, and  *)
(* its changes reach the database at its commit, by primary key.           *)
(***************************************************************************)
EXTENDS PipelineGraph, TableRows

CONSTANTS
  EdgeLists,   \* the edge lists the first pipeline may start with
  SentLists,   \* the edge lists clients send
  SentStatus,  \* the statuses they send
  Caller       \* slots for concurrent requests

VARIABLES
  pipelines,  \* the status of each pipeline, by its id; none is ever deleted
  edges,      \* the edges table, by the id of a row: its pipeline and the edge
  numbered,   \* the largest id ever given to an edge
  calls,      \* per slot: what the request has loaded and will write
  answered,   \* history: per pipeline, what the requests answered so far say
  clashed,    \* history: whether two requests for one thing were ever in flight
  requests    \* bound: the requests still to come

tableVars == <<sqlite, pipelines, edges, numbered>>
editVars  == <<tableVars, calls, answered, clashed, requests>>

PipelineStatus == {"active", "paused", "archived"}
Content == [status : PipelineStatus, edges : Seq(Edge)]

\* The body of an update; a field that is not sent is None.
Body == [status : SentStatus \cup {None}, edges : SentLists \cup {None}]

ASSUME EditsAssumption ==
  /\ EdgeLists \subseteq Seq(Edge) /\ SentLists \subseteq Seq(Edge)
  /\ SentStatus \subseteq PipelineStatus
  /\ None \notin PipelineStatus /\ None \notin SentLists

NoCall == [pipeline |-> 0, status |-> None, edges |-> None, existing |-> {}]

--------------------------------------------------------------------------------
RowsOfPipeline(p) == {i \in DOMAIN edges : edges[i].pipeline = p}
EdgesOf(p) == [i \in RowsOfPipeline(p) |-> edges[i].edge]

\* The table once the new edges of a pipeline are inserted.
Inserted(p, new) ==
  LET last == NewId({[id |-> i] : i \in DOMAIN edges}, numbered) - 1
  IN  [i \in DOMAIN edges \cup (last + 1 .. last + Len(new)) |->
         IF i \in DOMAIN edges THEN edges[i] ELSE [pipeline |-> p, edge |-> new[i - last]]]

\* SQLAlchemy flushes the inserts of a commit before its deletes; a delete that
\* matches no row is no error.
Without(rows, ids) == [i \in DOMAIN rows \ ids |-> rows[i]]

\* Those ids that a commit has given.
Numbered(rows) == numbered' = Max({numbered} \cup DOMAIN rows)

EditsInit ==
  /\ sqlite \in BOOLEAN
  /\ \E es \in EdgeLists :
       /\ ~Cyclic(es)
       /\ pipelines = << "active" >>
       /\ edges = [i \in DOMAIN es |-> [pipeline |-> 1, edge |-> es[i]]]
       /\ answered = << [status |-> "active", edges |-> es] >>
       /\ numbered = Len(es)
  /\ calls = [c \in Caller |-> NoCall]
  /\ clashed = FALSE

Receive == requests > 0 /\ requests' = requests - 1

--------------------------------------------------------------------------------
\* create_pipeline is one transaction, begun by its first insert.
CreatePipeline(es) ==
  /\ Receive
  /\ ~Cyclic(es)
  /\ pipelines' = Append(pipelines, "active")
  /\ edges' = Inserted(Len(pipelines'), es)
  /\ Numbered(edges')
  /\ answered' = Append(answered, [status |-> "active", edges |-> es])
  /\ UNCHANGED <<sqlite, calls, clashed>>

\* Two requests for one pipeline clash if both set its edges or both change its status.
Clash(p, body) ==
  \E c \in Caller : /\ calls[c].pipeline = p
                    /\ \/ calls[c].edges # None /\ body.edges # None
                       \/ calls[c].status # None /\ body.status \notin {None, pipelines[p]}

\* Mutant of Begin: the edges of all pipelines are loaded.
BeginAll(c, p, body) ==
  /\ Receive
  /\ calls[c] = NoCall
  /\ calls' = [calls EXCEPT ![c] =
       [pipeline |-> p, status |-> IF body.status = pipelines[p] THEN None ELSE body.status,
        edges |-> body.edges, existing |-> IF body.edges = None THEN {} ELSE DOMAIN edges]]
  /\ clashed' = (clashed \/ Clash(p, body))
  /\ UNCHANGED <<tableVars, answered>>

\* A request has loaded its pipeline and, if it sets the edges, those there are.  A
\* status that the pipeline has already is not written.
Begin(c, p, body) ==
  /\ Receive
  /\ calls[c] = NoCall
  /\ calls' = [calls EXCEPT ![c] =
       [pipeline |-> p, status |-> IF body.status = pipelines[p] THEN None ELSE body.status,
        edges |-> body.edges,
        existing |-> IF body.edges = None THEN {} ELSE RowsOfPipeline(p)]]
  /\ clashed' = (clashed \/ Clash(p, body))
  /\ UNCHANGED <<tableVars, answered>>

\* Mutant of BeginUpdate: an archived pipeline is found.
BeginUpdateAny(c, p, body) ==
  /\ body.edges # None => ~Cyclic(body.edges)
  /\ Begin(c, p, body)

BeginUpdate(c, p, body) ==
  /\ pipelines[p] # "archived"
  /\ body.edges # None => ~Cyclic(body.edges)
  /\ Begin(c, p, body)

\* delete_pipeline archives it, whatever its status.
BeginArchive(c, p) == Begin(c, p, [status |-> "archived", edges |-> None])

Or(value, default) == IF value = None THEN default ELSE value

CommitEdit(c) ==
  LET call == calls[c]
      p    == call.pipeline
  IN  /\ call # NoCall
      /\ pipelines' = [pipelines EXCEPT ![p] = Or(call.status, @)]
      /\ edges' = IF call.edges = None THEN edges
                  ELSE Without(Inserted(p, call.edges), call.existing)
      /\ Numbered(IF call.edges = None THEN edges ELSE Inserted(p, call.edges))
      /\ answered' = [answered EXCEPT ![p] = [status |-> Or(call.status, @.status),
                                              edges  |-> Or(call.edges, @.edges)]]
      /\ calls' = [calls EXCEPT ![c] = NoCall]
      /\ UNCHANGED <<sqlite, clashed, requests>>

\* The commit raises and is rolled back: the client gets a 500.
EditFails(c) ==
  /\ calls[c] # NoCall
  /\ calls' = [calls EXCEPT ![c] = NoCall]
  /\ UNCHANGED <<tableVars, answered, clashed, requests>>

EditNext ==
  \/ \E es \in SentLists : CreatePipeline(es)
  \/ \E c \in Caller :
       \/ CommitEdit(c) \/ EditFails(c)
       \/ \E p \in DOMAIN pipelines :
            BeginArchive(c, p) \/ \E body \in Body : BeginUpdate(c, p, body)

--------------------------------------------------------------------------------
EditsTypeOK ==
  /\ sqlite \in BOOLEAN /\ clashed \in BOOLEAN /\ requests \in Nat
  /\ pipelines \in Seq(PipelineStatus)
  /\ numbered \in Nat
  /\ DOMAIN edges \subseteq 1 .. numbered
  /\ edges \in [DOMAIN edges -> [pipeline : DOMAIN pipelines, edge : Edge]]
  /\ answered \in Seq(Content) /\ DOMAIN answered = DOMAIN pipelines
  /\ calls \in [Caller -> {NoCall} \cup
        [pipeline : DOMAIN pipelines, status : PipelineStatus \cup {None},
         edges : Seq(Edge) \cup {None}, existing : SUBSET (1 .. numbered)]]

\* A pipeline has these edges, in the order of their ids.
Listed(rows, list) ==
  /\ Cardinality(DOMAIN rows) = Len(list)
  /\ \A i \in DOMAIN rows : rows[i] = list[Cardinality({k \in DOMAIN rows : k <= i})]

\* Unless two requests ever set the same thing of one pipeline at once, every
\* pipeline has the status and the edges, in their order, that the last successful
\* request to change them said, and the edges have no cycle; no request for another
\* pipeline takes an edge from it or adds one (pipelines.py:221-246).
PipelinesAsAnswered ==
  ~clashed =>
    \A p \in DOMAIN pipelines :
      /\ pipelines[p] = answered[p].status
      /\ Listed(EdgesOf(p), answered[p].edges)
      /\ ~Cyclic(EdgesOf(p))

\* An archived pipeline stays archived, unless two requests set the status of one
\* at once (pipelines.py:217-219 and 261-265).
ArchivedStays ==
  [][\A p \in DOMAIN pipelines :
       pipelines[p] = "archived" /\ ~clashed => pipelines'[p] = "archived"]_editVars
================================================================================
