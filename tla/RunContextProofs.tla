---------------------------- MODULE RunContextProofs ----------------------------
(***************************************************************************)
(* The secrets table holds what its endpoints answered, with or without    *)
(* the reuse of ids; the environment of a run is current; and its alerts   *)
(* are exact: for any names, values, keys, policies and jobs and any       *)
(* number of concurrent requests and runs.                                 *)
(***************************************************************************)
EXTENDS RunContext, MaximumFacts, SequenceTheorems

\* A row is identified by its id.
IdsUnique == \A s, t \in secrets : s.id = t.id => s = t

\* A request whose name nobody disturbed has read what the table still holds.
Stands(q) ==
  IF asks[q].op = "insert"
    THEN Named(asks[q].name) = {}
    ELSE \E s \in secrets : Named(asks[q].name) = {s} /\ s.id = asks[q].id

ReadStands ==
  \A q \in Requests : asks[q] # Idle /\ asks[q].name \notin raced => Stands(q)

ContendedSeen == Contended \subseteq raced

VaultInv ==
  VaultTypeOK /\ IdsUnique /\ ReadStands /\ ContendedSeen /\ AsAnswered

--------------------------------------------------------------------------------
\* The id of a new row is a positive number that no row has.
LEMMA NewIdFacts ==
  ASSUME NEW rows, \A s \in rows : s.id \in Nat, NEW last \in Nat,
         \A s \in rows : s.id <= last, sqlite \in BOOLEAN
  PROVE  /\ NewId(rows, last) \in Nat \ {0}
         /\ \A s \in rows : s.id < NewId(rows, last)
<1> DEFINE S == {0} \cup Ids(rows)
<1>1. S \subseteq Nat /\ S # {} /\ \A x \in S : x <= last
  BY DEF Ids
<1>2. Max(S) \in S /\ \A x \in S : x <= Max(S)
  <2> HIDE DEF S
  <2> QED BY <1>1, MaxFacts
<1>3. Max(S) \in Nat /\ \A s \in rows : s.id <= Max(S)
  BY <1>1, <1>2 DEF Ids
<1>4. NewId(rows, last) \in {Max(S) + 1, last + 1}
  BY DEF NewId
<1> HIDE DEF S
<1>5. \A s \in rows : s.id < Max(S) + 1 /\ s.id < last + 1
  BY <1>3
<1> QED BY <1>3, <1>4, <1>5

--------------------------------------------------------------------------------
LEMMA VaultInitial == Init => VaultInv
<1> SUFFICES ASSUME Init PROVE VaultInv
  OBVIOUS
<1>0. VaultInit
  BY DEF Init
<1>1. PICK b \in Nat : \A s \in secrets : s.id <= b
  <2>1. CASE secrets = {}
    BY <2>1
  <2>2. CASE secrets # {}
    BY <1>0, <2>2, VaultAssumption DEF VaultInit, Row
  <2> QED BY <2>1, <2>2
<1>2. secrets \subseteq Row /\ (\A s, t \in secrets : s.id = t.id \/ s.name = t.name => s = t)
  BY <1>0, VaultAssumption DEF VaultInit
<1>3. issued \in Nat /\ \A s \in secrets : s.id <= issued
  <2> DEFINE S == {0} \cup Ids(secrets)
  <2>1. S \subseteq Nat /\ S # {} /\ \A x \in S : x <= b
    BY <1>1, <1>2 DEF Ids, Row
  <2>2. Max(S) \in S /\ \A x \in S : x <= Max(S)
    <3> HIDE DEF S
    <3> QED BY <2>1, MaxFacts
  <2> QED BY <1>0, <2>1, <2>2 DEF VaultInit, Ids
<1>4. VaultTypeOK
  BY <1>0, <1>2, <1>3 DEF VaultInit, VaultTypeOK, Ask
<1>5. ReadStands /\ ContendedSeen
  BY <1>0 DEF VaultInit, ReadStands, ContendedSeen, Contended, About
<1>6. AsAnswered
  BY <1>0, <1>2 DEF VaultInit, AsAnswered, Named
<1> QED BY <1>2, <1>4, <1>5, <1>6 DEF VaultInv, IdsUnique

--------------------------------------------------------------------------------
(* Steps.                                                                  *)

\* Nothing the invariant speaks of changes.
LEMMA VaultUnchanged ==
  VaultInv /\ UNCHANGED <<sqlite, vaultVars>> => VaultInv'
BY DEF VaultInv, VaultTypeOK, IdsUnique, ReadStands, Stands, ContendedSeen, AsAnswered,
       vaultVars, Named, Contended, About

\* Every step but a restart watches.
LEMMA WatchSeen == Watch => ContendedSeen' /\ raced \subseteq raced'
BY DEF Watch, ContendedSeen

\* What a request in flight is.
LEMMA AskShape ==
  ASSUME VaultTypeOK, NEW q \in Requests, asks[q] # Idle
  PROVE  /\ asks[q].op \in {"insert", "update", "delete"} /\ asks[q].name \in Names
         /\ asks[q].id \in Nat /\ asks[q].cipher \in Cipher \cup {None}
BY DEF VaultTypeOK, Ask

\* If another request is about the name of one in flight, the name is raced.
LEMMA TwoAreSeen ==
  ASSUME VaultTypeOK, ContendedSeen, NEW p \in Requests, NEW q \in Requests, p # q,
         asks[p] # Idle, asks[q] # Idle, asks[p].name = asks[q].name
  PROVE  asks[p].name \in raced
<1>1. asks[p].name \in Names
  BY AskShape
<1>2. About(p, asks[p].name) /\ About(q, asks[p].name)
  BY DEF About
<1> QED BY <1>1, <1>2 DEF ContendedSeen, Contended

\* If a request holds the id of a row of another name, that name is raced.
LEMMA HitIsSeen ==
  ASSUME VaultTypeOK, ContendedSeen, NEW q \in Requests, asks[q] # Idle,
         NEW s \in secrets, s.id = asks[q].id, s.name # asks[q].name
  PROVE  s.name \in raced
<1>1. s.name \in Names
  BY DEF VaultTypeOK, Row
<1>2. About(q, s.name)
  BY DEF About, Named
<1> QED BY <1>1, <1>2 DEF ContendedSeen, Contended

\* A new request reads the rows of its name and changes nothing.
LEMMA ReceiveStep ==
  ASSUME VaultInv, NEW q \in Requests, ReceiveSecret(q)
  PROVE  VaultInv'
<1>0. UNCHANGED <<sqlite, key, secrets, issued, latest>> /\ Watch /\ asks[q] = Idle
  BY DEF ReceiveSecret, DeleteSecret, Upsert
<1>1. PICK a \in Ask \ {Idle} :
        /\ asks' = [asks EXCEPT ![q] = a]
        /\ IF a.op = "insert" THEN Named(a.name) = {}
             ELSE \E s \in secrets : Named(a.name) = {s} /\ s.id = a.id
  <2>1. CASE \E n \in Names : DeleteSecret(q, n)
    <3>1. PICK n \in Names : DeleteSecret(q, n)
      BY <2>1
    <3>2. PICK s \in Named(Upper[n]) :
            /\ Named(Upper[n]) = {s}
            /\ asks' = [asks EXCEPT ![q] = [op |-> "delete", id |-> s.id,
                                            name |-> s.name, cipher |-> None]]
      BY <3>1 DEF DeleteSecret
    <3> DEFINE a == [op |-> "delete", id |-> s.id, name |-> s.name, cipher |-> None]
    <3>3. s \in secrets /\ s.name = Upper[n] /\ s.id \in Nat /\ s.name \in Names
      BY <3>2 DEF Named, VaultInv, VaultTypeOK, Row
    <3>4. a \in Ask \ {Idle} /\ a.op # "insert" /\ a.name = Upper[n] /\ a.id = s.id
      BY <3>3 DEF Ask, Idle
    <3> QED BY <3>2, <3>3, <3>4
  <2>2. CASE \E n \in Names, v \in Values : Upsert(q, n, v)
    <3>1. PICK n \in Names, v \in Values : Upsert(q, n, v)
      BY <2>2
    <3> DEFINE c == [key |-> key, value |-> v]
    <3>2. c \in Cipher /\ Upper[n] \in Names
      BY <3>1, VaultAssumption DEF Upsert, VaultInv, VaultTypeOK, Cipher
    <3>3. CASE /\ Named(Upper[n]) = {}
               /\ asks' = [asks EXCEPT ![q] =
                    [op |-> "insert", id |-> 0, name |-> Upper[n], cipher |-> c]]
      <4> DEFINE a == [op |-> "insert", id |-> 0, name |-> Upper[n], cipher |-> c]
      <4>1. a \in Ask \ {Idle} /\ a.op = "insert" /\ a.name = Upper[n]
        BY <3>2 DEF Ask, Idle
      <4> QED BY <3>3, <4>1
    <3>4. CASE \E s \in Named(Upper[n]) :
                 /\ Named(Upper[n]) = {s}
                 /\ asks' = [asks EXCEPT ![q] =
                      [op |-> "update", id |-> s.id, name |-> Upper[n], cipher |-> c]]
      <4>1. PICK s \in Named(Upper[n]) :
                 /\ Named(Upper[n]) = {s}
                 /\ asks' = [asks EXCEPT ![q] =
                      [op |-> "update", id |-> s.id, name |-> Upper[n], cipher |-> c]]
        BY <3>4
      <4> DEFINE a == [op |-> "update", id |-> s.id, name |-> Upper[n], cipher |-> c]
      <4>2. s \in secrets /\ s.id \in Nat
        BY DEF Named, VaultInv, VaultTypeOK, Row
      <4>3. a \in Ask \ {Idle} /\ a.op # "insert" /\ a.name = Upper[n] /\ a.id = s.id
        BY <3>2, <4>2 DEF Ask, Idle
      <4> QED BY <4>1, <4>2, <4>3
    <3> QED BY <3>1, <3>3, <3>4 DEF Upsert
  <2> QED BY <2>1, <2>2 DEF ReceiveSecret
<1>2. asks \in [Requests -> Ask] /\ raced' \subseteq Names
  BY <1>0 DEF VaultInv, VaultTypeOK, Watch, Contended
<1>3. VaultTypeOK'
  BY <1>0, <1>1, <1>2 DEF VaultInv, VaultTypeOK
<1>4. ContendedSeen' /\ raced \subseteq raced'
  BY <1>0, WatchSeen
<1>5. IdsUnique' /\ AsAnswered'
  BY <1>0, <1>4 DEF VaultInv, IdsUnique, AsAnswered, Named
<1>6. ReadStands'
  <2> SUFFICES ASSUME NEW p \in Requests, asks'[p] # Idle, asks'[p].name \notin raced'
               PROVE  Stands(p)'
    BY DEF ReadStands
  <2>1. CASE p = q
    <3>1. asks'[p] = a
      BY <1>1, <2>1 DEF VaultInv, VaultTypeOK
    <3> QED BY <1>0, <1>1, <3>1 DEF Stands, Named
  <2>2. CASE p # q
    <3>1. asks'[p] = asks[p]
      BY <1>1, <2>2 DEF VaultInv, VaultTypeOK
    <3>2. Stands(p)
      BY <1>4, <3>1 DEF VaultInv, ReadStands
    <3> QED BY <1>0, <3>1, <3>2 DEF Stands, Named
  <2> QED BY <2>1, <2>2
<1> QED BY <1>3, <1>4, <1>5, <1>6 DEF VaultInv

\* A request that ends keeps the invariant if it leaves the rows of other names
\* alone, but for raced ones, and those of its own name as it answers.
LEMMA SettleFrame ==
  ASSUME VaultInv, NEW q \in Requests, asks[q] # Idle,
         asks' = [asks EXCEPT ![q] = Idle], Watch,
         \A m \in Names \ raced : m # asks[q].name =>
           Named(m)' = Named(m) /\ latest'[m] = latest[m],
         \A m \in Names \ raced : m = asks[q].name =>
           /\ {s.cipher : s \in Named(m)'} = {latest'[m]} \ {None}
           /\ \A s, t \in Named(m)' : s = t
  PROVE  ContendedSeen' /\ ReadStands' /\ AsAnswered'
<1>1. ContendedSeen' /\ raced \subseteq raced'
  BY WatchSeen
<1>2. AsAnswered'
  <2> SUFFICES ASSUME NEW m \in Names, m \notin raced
               PROVE  /\ {s.cipher : s \in Named(m)'} = {latest'[m]} \ {None}
                      /\ \A s, t \in Named(m)' : s = t
    BY <1>1 DEF AsAnswered
  <2>1. CASE m # asks[q].name
    <3>1. Named(m)' = Named(m) /\ latest'[m] = latest[m]
      BY <2>1
    <3> QED BY <3>1 DEF VaultInv, AsAnswered
  <2> QED BY <2>1
<1>3. ReadStands'
  <2> SUFFICES ASSUME NEW p \in Requests, asks'[p] # Idle, asks'[p].name \notin raced'
               PROVE  Stands(p)'
    BY DEF ReadStands
  <2>1. p # q /\ asks'[p] = asks[p]
    BY DEF VaultInv, VaultTypeOK
  <2>2. asks[p].name # asks[q].name
    BY <1>1, <2>1, TwoAreSeen DEF VaultInv
  <2>3. asks[p].name \in Names \ raced
    BY <1>1, <2>1, AskShape DEF VaultInv
  <2>4. Named(asks[p].name)' = Named(asks[p].name)
    BY <2>1, <2>2, <2>3 DEF Named
  <2>5. Stands(p)
    BY <2>1, <2>3 DEF VaultInv, ReadStands
  <2> QED BY <2>1, <2>4, <2>5 DEF Stands, Named
<1> QED BY <1>1, <1>2, <1>3

LEMMA InsertStep ==
  ASSUME VaultInv, NEW q \in Requests, Insert(q)
  PROVE  VaultInv'
<1>0. asks[q].name \in Names
  BY AskShape DEF VaultInv, Insert, Idle
<1> PICK n \in Names : n = asks[q].name
  BY <1>0
<1> DEFINE new == [id |-> NewId(secrets, issued), name |-> n, cipher |-> asks[q].cipher]
<1>1. /\ asks[q].op = "insert" /\ secrets' = secrets \cup {new}
      /\ issued' = Max({issued, new.id}) /\ Watch
      /\ latest' = [latest EXCEPT ![n] = asks[q].cipher]
      /\ asks' = [asks EXCEPT ![q] = Idle] /\ UNCHANGED <<sqlite, key>>
  BY DEF Insert, Answer
<1>2. asks[q] # Idle
  BY <1>1 DEF Idle
<1>3. asks[q].cipher \in Cipher
  BY <1>1, <1>2 DEF VaultInv, VaultTypeOK, Ask
<1>4. new.id \in Nat \ {0} /\ \A s \in secrets : s.id < new.id
  BY NewIdFacts DEF VaultInv, VaultTypeOK, Row
<1> HIDE DEF new
<1>5. new \in Row /\ new.name = n /\ new.cipher = asks[q].cipher
  BY <1>3, <1>4 DEF Row, new
<1>6. issued' \in Nat /\ issued <= issued' /\ new.id <= issued'
  <2>1. issued \in Nat /\ new.id \in Nat
    BY <1>4 DEF VaultInv, VaultTypeOK
  <2>2. \E b \in Nat : issued <= b /\ new.id <= b
    BY <2>1
  <2>3. Max({issued, new.id}) \in {issued, new.id} /\ \A x \in {issued, new.id} : x <= Max({issued, new.id})
    BY <2>1, <2>2, MaxFacts
  <2> QED BY <1>1, <2>1, <2>3
<1>7. VaultTypeOK'
  <2>1. raced' \subseteq Names
    BY <1>1 DEF VaultInv, VaultTypeOK, Watch, Contended
  <2>2. secrets' \subseteq Row /\ \A s \in secrets' : s.id <= issued'
    BY <1>1, <1>5, <1>6 DEF VaultInv, VaultTypeOK, Row
  <2> QED BY <1>1, <1>3, <1>6, <2>1, <2>2 DEF VaultInv, VaultTypeOK, Ask
<1>8. IdsUnique'
  BY <1>1, <1>4 DEF VaultInv, VaultTypeOK, IdsUnique, Row
<1>9. \A m \in Names \ raced : m # n => Named(m)' = Named(m) /\ latest'[m] = latest[m]
  BY <1>1, <1>5 DEF Named, VaultInv, VaultTypeOK
<1>10. n \notin raced => Named(n)' = {new} /\ latest'[n] = asks[q].cipher
  <2> SUFFICES ASSUME n \notin raced PROVE Named(n)' = {new} /\ latest'[n] = asks[q].cipher
    OBVIOUS
  <2>1. Named(n) = {}
    BY <1>1, <1>2 DEF VaultInv, ReadStands, Stands
  <2> QED BY <1>1, <1>3, <1>5, <2>1 DEF Named, VaultInv, VaultTypeOK
<1>11. asks[q].cipher # None
  BY <1>3, VaultAssumption DEF Cipher
<1>12. \A m \in Names \ raced : m = asks[q].name =>
         /\ {s.cipher : s \in Named(m)'} = {latest'[m]} \ {None}
         /\ \A s, t \in Named(m)' : s = t
  BY <1>5, <1>10, <1>11
<1>13. ContendedSeen' /\ ReadStands' /\ AsAnswered'
  BY <1>1, <1>2, <1>9, <1>12, SettleFrame
<1> QED BY <1>7, <1>8, <1>13 DEF VaultInv

\* An update that finds a row writes the value there, and nowhere else.
LEMMA UpdateStep ==
  ASSUME VaultInv, NEW q \in Requests, Update(q)
  PROVE  VaultInv'
<1>1. asks[q] # Idle /\ asks[q].op = "update" /\ asks[q].name \in Names
        /\ asks[q].cipher \in Cipher
  BY DEF VaultInv, VaultTypeOK, Ask, Update, Idle
<1> PICK n \in Names : n = asks[q].name
  BY <1>1
<1> DEFINE New(s) == IF s.id = asks[q].id THEN [s EXCEPT !.cipher = asks[q].cipher] ELSE s
<1>2. /\ secrets' = {New(s) : s \in secrets} /\ Watch
      /\ latest' = [latest EXCEPT ![n] = asks[q].cipher]
      /\ asks' = [asks EXCEPT ![q] = Idle] /\ UNCHANGED <<sqlite, key, issued>>
  BY DEF Update, Answer
<1>3. \A s \in secrets : /\ New(s) \in Row /\ New(s).id = s.id /\ New(s).name = s.name
                         /\ s.id = asks[q].id => New(s).cipher = asks[q].cipher
                         /\ s.id # asks[q].id => New(s) = s
  BY <1>1 DEF VaultInv, VaultTypeOK, Row
<1> HIDE DEF New
<1>4. VaultTypeOK'
  <2>1. raced' \subseteq Names
    BY <1>2 DEF VaultInv, VaultTypeOK, Watch, Contended
  <2>2. secrets' \subseteq Row /\ \A s \in secrets' : s.id <= issued'
    BY <1>2, <1>3 DEF VaultInv, VaultTypeOK
  <2>3. latest' \in [Names -> Cipher \cup {None}] /\ asks' \in [Requests -> Ask]
    BY <1>1, <1>2 DEF VaultInv, VaultTypeOK, Ask
  <2> QED BY <1>2, <2>1, <2>2, <2>3 DEF VaultInv, VaultTypeOK
<1>5. IdsUnique'
  BY <1>2, <1>3 DEF VaultInv, IdsUnique
<1>6. \A m \in Names \ raced : m # asks[q].name =>
        Named(m)' = Named(m) /\ latest'[m] = latest[m]
  <2> TAKE m \in Names \ raced
  <2> HAVE m # asks[q].name
  <2>1. \A s \in secrets : s.name = m => s.id # asks[q].id
    BY <1>1, HitIsSeen DEF VaultInv
  <2>2. Named(m)' = Named(m)
    BY <1>2, <1>3, <2>1 DEF Named
  <2> QED BY <1>2, <2>2 DEF VaultInv, VaultTypeOK
<1>7. \A m \in Names \ raced : m = asks[q].name =>
        /\ {s.cipher : s \in Named(m)'} = {latest'[m]} \ {None}
        /\ \A s, t \in Named(m)' : s = t
  <2> TAKE m \in Names \ raced
  <2> HAVE m = asks[q].name
  <2>1. PICK s \in secrets : Named(m) = {s} /\ s.id = asks[q].id
    BY <1>1 DEF VaultInv, ReadStands, Stands
  <2>2. Named(m)' = {New(s)}
    BY <1>2, <1>3, <2>1 DEF Named
  <2>3. New(s).cipher = asks[q].cipher /\ latest'[m] = asks[q].cipher
    BY <1>2, <1>3, <2>1 DEF VaultInv, VaultTypeOK
  <2>4. asks[q].cipher # None
    BY <1>1, VaultAssumption
  <2> QED BY <2>2, <2>3, <2>4
<1>8. ContendedSeen' /\ ReadStands' /\ AsAnswered'
  BY <1>1, <1>2, <1>6, <1>7, SettleFrame
<1> QED BY <1>4, <1>5, <1>8 DEF VaultInv

\* An update whose row is gone ends without an answer.
LEMMA UpdateFailsStep ==
  ASSUME VaultInv, NEW q \in Requests, UpdateFails(q)
  PROVE  VaultInv'
<1>1. asks[q] # Idle /\ asks[q].op = "update" /\ asks[q].name \in Names
  BY DEF VaultInv, VaultTypeOK, Ask, UpdateFails, Idle
<1>2. /\ asks' = [asks EXCEPT ![q] = Idle] /\ Watch
      /\ UNCHANGED <<sqlite, key, secrets, issued, latest>>
  BY DEF UpdateFails
<1>3. VaultTypeOK'
  BY <1>2 DEF VaultInv, VaultTypeOK, Watch, Contended, Ask
<1>4. \A m \in Names \ raced :
        /\ Named(m)' = Named(m) /\ latest'[m] = latest[m]
        /\ {s.cipher : s \in Named(m)'} = {latest'[m]} \ {None}
        /\ \A s, t \in Named(m)' : s = t
  BY <1>2 DEF VaultInv, AsAnswered, Named
<1>5. ContendedSeen' /\ ReadStands' /\ AsAnswered'
  BY <1>1, <1>2, <1>4, SettleFrame
<1> QED BY <1>2, <1>3, <1>5 DEF VaultInv, IdsUnique

\* A delete removes the row with the id it has read, and no other.
LEMMA RemoveStep ==
  ASSUME VaultInv, NEW q \in Requests, Remove(q)
  PROVE  VaultInv'
<1>1. asks[q] # Idle /\ asks[q].op = "delete" /\ asks[q].name \in Names
        /\ asks[q].cipher = None
  BY DEF VaultInv, VaultTypeOK, Ask, Remove, Idle
<1>2. /\ secrets' = {s \in secrets : s.id # asks[q].id} /\ Watch
      /\ latest' = [latest EXCEPT ![asks[q].name] = None]
      /\ asks' = [asks EXCEPT ![q] = Idle] /\ UNCHANGED <<sqlite, key, issued>>
  BY <1>1 DEF Remove, Answer
<1>3. VaultTypeOK'
  <2>1. raced' \subseteq Names
    BY <1>2 DEF VaultInv, VaultTypeOK, Watch, Contended
  <2> QED BY <1>1, <1>2, <2>1 DEF VaultInv, VaultTypeOK, Ask
<1>4. IdsUnique'
  BY <1>2 DEF VaultInv, IdsUnique
<1>5. \A m \in Names \ raced : m # asks[q].name =>
        Named(m)' = Named(m) /\ latest'[m] = latest[m]
  <2> TAKE m \in Names \ raced
  <2> HAVE m # asks[q].name
  <2>1. \A s \in secrets : s.name = m => s.id # asks[q].id
    BY <1>1, HitIsSeen DEF VaultInv
  <2> QED BY <1>2, <2>1 DEF Named, VaultInv, VaultTypeOK
<1>6. \A m \in Names \ raced : m = asks[q].name =>
        /\ {s.cipher : s \in Named(m)'} = {latest'[m]} \ {None}
        /\ \A s, t \in Named(m)' : s = t
  <2> TAKE m \in Names \ raced
  <2> HAVE m = asks[q].name
  <2>1. PICK s \in secrets : Named(m) = {s} /\ s.id = asks[q].id
    BY <1>1 DEF VaultInv, ReadStands, Stands
  <2>2. Named(m)' = {}
    BY <1>2, <2>1 DEF Named
  <2>3. latest'[m] = None
    BY <1>2 DEF VaultInv, VaultTypeOK
  <2> QED BY <2>2, <2>3
<1>7. ContendedSeen' /\ ReadStands' /\ AsAnswered'
  BY <1>1, <1>2, <1>5, <1>6, SettleFrame
<1> QED BY <1>3, <1>4, <1>7 DEF VaultInv

\* A restart forgets the requests and keeps the table.
LEMMA RestartStep ==
  ASSUME VaultInv, VaultRestart
  PROVE  VaultInv'
<1>1. /\ key' \in Keys \cup {None} /\ asks' = [q \in Requests |-> Idle]
      /\ UNCHANGED <<sqlite, secrets, issued, latest, raced>>
  BY DEF VaultRestart
<1>2. VaultTypeOK'
  BY <1>1 DEF VaultInv, VaultTypeOK, Ask
<1>3. ReadStands' /\ ContendedSeen'
  BY <1>1 DEF ReadStands, ContendedSeen, Contended, About
<1> QED BY <1>1, <1>2, <1>3 DEF VaultInv, IdsUnique, AsAnswered, Named

--------------------------------------------------------------------------------
\* One step of the whole system.
LEMMA VaultStep == VaultInv /\ [Next]_vars => VaultInv'
<1> SUFFICES ASSUME VaultInv, [Next]_vars PROVE VaultInv'
  OBVIOUS
<1>1. CASE Secrets
  <2>1. PICK q \in Requests : ReceiveSecret(q) \/ SettleSecret(q)
    BY <1>1 DEF Secrets
  <2> QED BY <2>1, ReceiveStep, InsertStep, UpdateStep, UpdateFailsStep, RemoveStep
       DEF SettleSecret
<1>2. CASE Restart
  BY <1>2, RestartStep DEF Restart
<1>3. CASE UNCHANGED <<sqlite, vaultVars>>
  BY <1>3, VaultUnchanged
<1>4. ASSUME NEW r \in Runs, Fire(r) \/ Webhook(r) \/ Step(r)
      PROVE  UNCHANGED <<sqlite, vaultVars>>
  BY <1>4 DEF Fire, Webhook, Begin, Step, MergeParams, Load, Resolve, Execute, Break,
              Consider, Reported, Go
<1>5. Policies => UNCHANGED <<sqlite, vaultVars>>
  BY DEF Policies, ReceiveCall, CreatePolicy, ChangePolicy, DeletePolicy, Prepare, CommitCall
<1>6. EditJob => UNCHANGED <<sqlite, vaultVars>>
  BY DEF EditJob
<1>7. UNCHANGED vars => UNCHANGED <<sqlite, vaultVars>>
  BY DEF vars
<1> QED BY <1>1, <1>2, <1>3, <1>4, <1>5, <1>6, <1>7 DEF Next

\* The secrets table always holds what its endpoints answered, as far as requests
\* for a secret did not overlap (routers/secrets.py:67-148).
THEOREM SecretsAsAnswered == Spec => []AsAnswered
<1>1. VaultInv => AsAnswered
  BY DEF VaultInv
<1> QED BY <1>1, VaultInitial, VaultStep, PTL DEF Spec

--------------------------------------------------------------------------------
(* The shape of a run.                                                     *)

RunFields ==
  {"stage", "job", "merged", "env", "loaded", "standing", "status", "duration", "todo", "sent"}

--------------------------------------------------------------------------------
\* What the proof needs to know of a run: it is a record, of a job, and the
\* environment it is about to resolve is one.
Shaped(run) ==
  /\ run = [x \in RunFields |-> run[x]]
  /\ run.stage # "idle" => run.job \in Jobs
  /\ run.stage = "resolve" => IsEnv(run.env)

RunShape ==
  /\ jobs \in [Jobs -> JobRows]
  /\ runs = [r \in Runs |-> runs[r]]
  /\ \A r \in Runs : Shaped(runs[r])

LEMMA NoRunShaped == Shaped(NoRun)
BY DEF Shaped, NoRun, RunFields

LEMMA ShapeInitial == Init => RunShape
<1> SUFFICES ASSUME Init PROVE RunShape
  OBVIOUS
<1>1. jobs \in [Jobs -> JobRows]
  BY DEF Init
<1>2. runs = [r \in Runs |-> runs[r]] /\ \A r \in Runs : runs[r] = NoRun
  BY DEF Init
<1> QED BY <1>1, <1>2, NoRunShaped DEF RunShape

\* A step of a run replaces that run only.
LEMMA GoShape ==
  ASSUME RunShape, NEW r \in Runs, NEW run, Shaped(run), Go(r, run)
  PROVE  RunShape'
<1>1. runs' = [runs EXCEPT ![r] = run] /\ UNCHANGED jobs
  BY DEF Go
<1>2. runs' = [x \in Runs |-> runs'[x]]
  BY <1>1 DEF RunShape
<1>3. \A x \in Runs : runs'[x] = IF x = r THEN run ELSE runs[x]
  BY <1>1 DEF RunShape
<1> QED BY <1>1, <1>2, <1>3 DEF RunShape

LEMMA ShapeStep == RunShape /\ [Next]_vars => RunShape'
<1> SUFFICES ASSUME RunShape, [Next]_vars PROVE RunShape'
  OBVIOUS
<1>1. ASSUME NEW r \in Runs, Fire(r) \/ Webhook(r) PROVE RunShape'
  <2>1. PICK j \in Jobs, stage \in {"load", "merge"},
               ps \in Params \cup {NoEnv} : Begin(r, j, stage, ps)
    BY <1>1 DEF Fire, Webhook
  <2> DEFINE run == [NoRun EXCEPT !.stage = stage, !.job = j, !.merged = ps]
  <2>2. Shaped(run)
    BY DEF Shaped, NoRun, RunFields
  <2> HIDE DEF run
  <2>3. runs' = [runs EXCEPT ![r] = run] /\ UNCHANGED jobs
    BY <2>1 DEF Begin, run
  <2>4. runs' = [x \in Runs |-> runs'[x]]
    BY <2>3 DEF RunShape
  <2>5. \A x \in Runs : runs'[x] = IF x = r THEN run ELSE runs[x]
    BY <2>3 DEF RunShape
  <2> QED BY <2>2, <2>3, <2>4, <2>5 DEF RunShape
<1>2. ASSUME NEW r \in Runs, Step(r) PROVE RunShape'
  <2>0. Shaped(runs[r])
    BY DEF RunShape
  <2>1. CASE MergeParams(r)
    <3>1. PICK copy : Go(r, [runs[r] EXCEPT !.stage = "load", !.merged = copy])
      BY <2>1 DEF MergeParams
    <3>2. Shaped([runs[r] EXCEPT !.stage = "load", !.merged = copy])
      BY <2>0, <2>1 DEF MergeParams, Shaped, RunFields
    <3> QED BY <3>1, <3>2, GoShape
  <2>2. CASE Load(r)
    <3> DEFINE own == PoliciesOf(runs[r].job)
               row == jobs[runs[r].job]
               run == [runs[r] EXCEPT !.stage = "resolve", !.env = row.env,
                                      !.merged = NoEnv, !.loaded = own, !.standing = own]
    <3>1. IsEnv(row.env)
      BY <2>0, <2>2, ContextAssumption DEF Load, Shaped, RunShape
    <3>2. Shaped(run)
      BY <2>0, <2>2, <3>1 DEF Load, Shaped, RunFields
    <3>3. CASE Go(r, run)
      BY <3>2, <3>3, GoShape
    <3>4. CASE Go(r, NoRun)
      BY <3>4, NoRunShaped, GoShape
    <3> QED BY <2>2, <3>3, <3>4 DEF Load
  <2>3. CASE Resolve(r)
    <3>1. PICK e : Go(r, [runs[r] EXCEPT !.stage = "execute", !.env = e])
                   \/ Go(r, [runs[r] EXCEPT !.stage = "execute"])
      BY <2>3 DEF Resolve
    <3>2. /\ Shaped([runs[r] EXCEPT !.stage = "execute", !.env = e])
          /\ Shaped([runs[r] EXCEPT !.stage = "execute"])
      BY <2>0, <2>3 DEF Resolve, Shaped, RunFields
    <3> QED BY <3>1, <3>2, GoShape
  <2>4. CASE Execute(r)
    <3>1. PICK s, d : Go(r, [runs[r] EXCEPT !.stage = "report", !.status = s,
                       !.duration = d, !.env = NoEnv, !.todo = runs[r].loaded])
      BY <2>4 DEF Execute
    <3>2. Shaped([runs[r] EXCEPT !.stage = "report", !.status = s,
                       !.duration = d, !.env = NoEnv, !.todo = runs[r].loaded])
      BY <2>0, <2>4 DEF Execute, Shaped, RunFields
    <3> QED BY <3>1, <3>2, GoShape
  <2>5. CASE Break(r)
    BY <2>5, NoRunShaped, GoShape DEF Break
  <2>6. CASE Consider(r)
    <3>1. PICK todo, sent : Go(r, [runs[r] EXCEPT !.todo = todo, !.sent = sent])
      BY <2>6 DEF Consider
    <3>2. Shaped([runs[r] EXCEPT !.todo = todo, !.sent = sent])
      BY <2>0 DEF Shaped, RunFields
    <3> QED BY <3>1, <3>2, GoShape
  <2>7. CASE Reported(r)
    BY <2>7, NoRunShaped, GoShape DEF Reported
  <2> QED BY <1>2, <2>1, <2>2, <2>3, <2>4, <2>5, <2>6, <2>7 DEF Step
<1>3. CASE Secrets
  BY <1>3 DEF Secrets, RunShape
<1>4. CASE Policies
  <2>1. UNCHANGED jobs /\ Observe
    BY <1>4 DEF Policies
  <2>2. runs' = [x \in Runs |-> runs'[x]]
    BY <2>1 DEF Observe
  <2>3. \A x \in Runs : Shaped(runs'[x])
    BY <2>1 DEF Observe, RunShape, Shaped, RunFields
  <2> QED BY <2>1, <2>2, <2>3 DEF RunShape
<1>5. CASE EditJob
  BY <1>5 DEF EditJob, RunShape
<1>6. CASE Restart
  <2>1. UNCHANGED jobs /\ runs' = [x \in Runs |-> NoRun]
    BY <1>6 DEF Restart
  <2> QED BY <2>1, NoRunShaped DEF RunShape
<1>7. CASE UNCHANGED vars
  BY <1>7 DEF vars, RunShape
<1> QED BY <1>1, <1>2, <1>3, <1>4, <1>5, <1>6, <1>7 DEF Next

--------------------------------------------------------------------------------
\* The environment that the secrets as answered make of a job's.
Expected(env) ==
  IF \A n \in References(env) : latest[n] # None /\ latest[n].key = key
    THEN Substitute(env, [n \in References(env) |-> latest[n].value])
    ELSE env

Given(env, given) ==
  /\ given # env => References(given) = {}
  /\ References(env) \cap raced = {} =>
       /\ given = Expected(env)
       /\ given # env => \A n \in References(env) : latest[n] # None /\ latest[n].key = key

Resolved(r) ==
  runs[r].stage = "resolve" /\ runs'[r].stage = "execute"
  => Given(runs[r].env, runs'[r].env)

\* Replacing every placeholder leaves none.
LEMMA NonePlaceholder ==
  ASSUME NEW env, NEW value
  PROVE  References(Substitute(env, value)) = {}
<1> SUFFICES ASSUME NEW x \in DOMAIN env PROVE Substitute(env, value)[x].kind # "secret"
  BY DEF References, Substitute
<1>1. CASE env[x].kind = "secret"
  BY <1>1 DEF Substitute, Plain
<1>2. CASE env[x].kind # "secret"
  BY <1>2 DEF Substitute
<1> QED BY <1>1, <1>2

\* The rows of a name nobody disturbed are its answer.
LEMMA RowIsAnswer ==
  ASSUME VaultInv, NEW n \in Names, n \notin raced
  PROVE  /\ \A s \in secrets : s.name = n => latest[n] # None /\ s.cipher = latest[n]
         /\ latest[n] # None => \E s \in secrets : s.name = n
<1>1. {s.cipher : s \in Named(n)} = {latest[n]} \ {None}
  BY DEF VaultInv, AsAnswered
<1>2. \A s \in secrets : s.name = n => s.cipher \in {latest[n]} \ {None}
  BY <1>1 DEF Named
<1>3. latest[n] # None => \E s \in Named(n) : s.cipher = latest[n]
  BY <1>1
<1> QED BY <1>2, <1>3 DEF Named

LEMMA ResolveCurrent ==
  ASSUME VaultInv, RunShape, NEW r \in Runs, Resolve(r),
         References(runs[r].env) \cap raced = {}
  PROVE  runs'[r].env = Expected(runs[r].env)
<1> DEFINE env  == runs[r].env
           refs == References(env)
           rows == {s \in secrets : s.name \in refs}
           Pick == {c \in [refs -> rows] : \A n \in refs : c[n].name = n}
<1>0. Shaped(runs[r]) /\ runs[r].stage = "resolve"
  BY DEF RunShape, Resolve
<1>1. refs \subseteq Names \ raced
  BY <1>0 DEF Shaped, IsEnv, References, Texts
<1>2. \A n \in refs : /\ \A s \in secrets : s.name = n => latest[n] # None /\ s.cipher = latest[n]
                      /\ latest[n] # None => \E s \in secrets : s.name = n
  BY <1>1, RowIsAnswer
<1>3. ASSUME NEW c \in Pick, NEW n \in refs
      PROVE  c[n] \in secrets /\ c[n].name = n /\ latest[n] # None /\ c[n].cipher = latest[n]
  BY <1>2, <1>3
<1>4. CASE \E c \in Pick :
             /\ \A n \in refs : Readable(c[n])
             /\ Go(r, [runs[r] EXCEPT !.stage = "execute",
                  !.env = Substitute(env, [n \in refs |-> c[n].cipher.value])])
  <2>1. PICK c \in Pick :
             /\ \A n \in refs : Readable(c[n])
             /\ Go(r, [runs[r] EXCEPT !.stage = "execute",
                  !.env = Substitute(env, [n \in refs |-> c[n].cipher.value])])
    BY <1>4
  <2>2. \A n \in refs : /\ latest[n] # None /\ latest[n].key = key
                        /\ c[n].cipher.value = latest[n].value
    BY <1>3, <2>1 DEF Readable
  <2>3. [n \in refs |-> c[n].cipher.value] = [n \in refs |-> latest[n].value]
    BY <2>2
  <2>4. Expected(env) = Substitute(env, [n \in refs |-> c[n].cipher.value])
    BY <2>2, <2>3 DEF Expected
  <2> HIDE DEF env, refs, rows, Pick
  <2>5. runs'[r].env = Substitute(env, [n \in refs |-> c[n].cipher.value])
    BY <1>0, <2>1 DEF Go, RunShape, Shaped, RunFields
  <2> QED BY <2>4, <2>5 DEF env
<1>5. CASE /\ Pick = {} \/ \E c \in Pick, n \in refs : ~ Readable(c[n])
           /\ Go(r, [runs[r] EXCEPT !.stage = "execute"])
  <2>1. ~ \A n \in refs : latest[n] # None /\ latest[n].key = key
    <3>1. CASE Pick = {}
      <4> SUFFICES ASSUME \A n \in refs : latest[n] # None PROVE FALSE
        OBVIOUS
      <4> DEFINE c == [n \in refs |-> CHOOSE s \in secrets : s.name = n]
      <4>1. \A n \in refs : c[n] \in secrets /\ c[n].name = n
        BY <1>2
      <4>2. c \in Pick
        BY <4>1
      <4> QED BY <3>1, <4>2
    <3>2. CASE \E c \in Pick, n \in refs : ~ Readable(c[n])
      BY <1>3, <3>2 DEF Readable
    <3> QED BY <1>5, <3>1, <3>2
  <2>2. Expected(env) = env
    BY <2>1 DEF Expected
  <2>3. runs'[r].env = env
    BY <1>0, <1>5 DEF Go, RunShape, Shaped, RunFields
  <2> QED BY <2>2, <2>3
<1> QED BY <1>4, <1>5 DEF Resolve

\* Raced or not, the environment is as it was or has no placeholder left.
LEMMA ResolveWhole ==
  ASSUME VaultInv, RunShape, NEW r \in Runs, Resolve(r)
  PROVE  Given(runs[r].env, runs'[r].env)
<1>0. Shaped(runs[r])
  BY DEF RunShape
<1>1. runs'[r].env # runs[r].env => References(runs'[r].env) = {}
  <2> DEFINE env == runs[r].env
  <2>1. \/ \E value : Go(r, [runs[r] EXCEPT !.stage = "execute", !.env = Substitute(env, value)])
        \/ Go(r, [runs[r] EXCEPT !.stage = "execute"])
    BY DEF Resolve
  <2>2. ASSUME NEW value,
               Go(r, [runs[r] EXCEPT !.stage = "execute", !.env = Substitute(env, value)])
        PROVE  References(runs'[r].env) = {}
    <3> HIDE DEF env
    <3>1. runs'[r].env = Substitute(env, value)
      BY <1>0, <2>2 DEF Go, RunShape, Shaped, RunFields
    <3> QED BY <3>1, NonePlaceholder
  <2>3. Go(r, [runs[r] EXCEPT !.stage = "execute"]) => runs'[r].env = env
    BY <1>0 DEF Go, RunShape, Shaped, RunFields
  <2> QED BY <2>1, <2>2, <2>3
<1>2. References(runs[r].env) \cap raced = {} => runs'[r].env = Expected(runs[r].env)
  BY ResolveCurrent
<1>3. Expected(runs[r].env) # runs[r].env =>
        \A n \in References(runs[r].env) : latest[n] # None /\ latest[n].key = key
  BY DEF Expected
<1> QED BY <1>1, <1>2, <1>3 DEF Given

\* No other step ends the resolution of a run.
LEMMA OnlyResolve ==
  ASSUME RunShape, [Next]_vars, NEW r \in Runs,
         runs[r].stage = "resolve", runs'[r].stage = "execute"
  PROVE  Resolve(r)
<1>0. \A x \in Runs : Shaped(runs[x])
  BY DEF RunShape
<1>1. ASSUME NEW x \in Runs, Fire(x) \/ Webhook(x) \/ Step(x) PROVE Resolve(r)
  <2>1. CASE x # r
    <3>1. \A run : Go(x, run) => runs'[r] = runs[r]
      BY <2>1 DEF Go, RunShape
    <3>2. Fire(x) \/ Webhook(x) => runs'[r] = runs[r]
      BY <2>1 DEF Fire, Webhook, Begin, RunShape
    <3>3. Step(x) => \E run : Go(x, run)
      BY DEF Step, MergeParams, Load, Resolve, Execute, Break, Consider, Reported
    <3> QED BY <1>1, <3>1, <3>2, <3>3
  <2>2. CASE x = r
    <3>1. ~ Fire(r) /\ ~ Webhook(r) /\ ~ MergeParams(r) /\ ~ Load(r)
            /\ ~ Execute(r) /\ ~ Consider(r) /\ ~ Reported(r)
      BY DEF Fire, Webhook, Begin, MergeParams, Load, Execute, Consider, Reported
    <3>2. ~ Break(r)
      BY DEF Break, Go, RunShape, NoRun
    <3> QED BY <1>1, <2>2, <3>1, <3>2 DEF Step
  <2> QED BY <2>1, <2>2
<1>2. Secrets => UNCHANGED runs
  BY DEF Secrets
<1>3. Policies => runs'[r].stage = runs[r].stage
  BY <1>0 DEF Policies, Observe, Shaped, RunFields
<1>4. EditJob => UNCHANGED runs
  BY DEF EditJob
<1>5. Restart => runs'[r].stage = "idle"
  BY DEF Restart, NoRun
<1>6. UNCHANGED vars => UNCHANGED runs
  BY DEF vars
<1> QED BY <1>1, <1>2, <1>3, <1>4, <1>5, <1>6 DEF Next

\* A run is given all of its secrets or none, and as last answered unless requests for
\* one of them overlapped (secret_resolver.py:70-108).
THEOREM SecretsComeWhole == Spec => SecretsWhole
<1>1. VaultInv /\ RunShape /\ [Next]_vars => \A r \in Runs : Resolved(r)
  BY ResolveWhole, OnlyResolve DEF Resolved
<1>2. ASSUME \A r \in Runs : Resolved(r)
      PROVE  \A r \in Runs :
               LET env   == runs[r].env
                   given == runs'[r].env
                   refs  == References(env)
                   known == \A n \in refs : latest[n] # None /\ latest[n].key = key
               IN  runs[r].stage = "resolve" /\ runs'[r].stage = "execute" =>
                     /\ given # env => References(given) = {}
                     /\ refs \cap raced = {} =>
                          /\ known => given = Substitute(env, [n \in refs |-> latest[n].value])
                          /\ given # env => known
  BY <1>2 DEF Resolved, Given, Expected
<1> QED BY <1>1, <1>2, VaultInitial, VaultStep, ShapeInitial, ShapeStep, PTL
    DEF Spec, SecretsWhole
--------------------------------------------------------------------------------
(* The table of policies.                                                  *)

\* What a request in flight carries into the table.
Carries(call) ==
  /\ call.op = "create" => call.body \in Body
  /\ call.op = "update" => /\ DOMAIN call.body \subseteq Fields
                           /\ \E b \in Body : \A f \in DOMAIN call.body : call.body[f] = b[f]

PoliciesInv ==
  /\ PoliciesTypeOK /\ IsFiniteSet(policies)
  /\ calls = [c \in Clients |-> calls[c]]
  /\ \A c \in Clients : Carries(calls[c])

\* The largest of a number and the ids in a finite set of rows bounds them all.
LEMMA LargestFacts ==
  ASSUME NEW rows, rows \subseteq Policy, IsFiniteSet(rows), NEW last \in Nat
  PROVE  LET top == Max({last} \cup Ids(rows))
         IN  top \in Nat /\ last <= top /\ \A p \in rows : p.id <= top
<1> DEFINE S == {last} \cup Ids(rows)
<1>1. S \subseteq Nat /\ S # {}
  BY DEF Ids, Policy
<1>2. IsFiniteSet(S)
  <2>1. IsFiniteSet({last})
    BY FS_Singleton
  <2>2. IsFiniteSet(Ids(rows))
    <3> DEFINE f == [p \in rows |-> p.id]
    <3>1. f \in Surjection(rows, Ids(rows))
      BY DEF Surjection, Ids
    <3> QED BY <3>1, FS_Surjection
  <2> QED BY <2>1, <2>2, FS_Union
<1>3. Max(S) \in S /\ \A x \in S : x <= Max(S)
  <2> HIDE DEF S
  <2>1. PICK b \in Nat : \A x \in S : x <= b
    BY <1>1, <1>2, FiniteBounded
  <2> QED BY <1>1, <2>1, MaxFacts
<1>4. last \in S /\ \A p \in rows : p.id \in S
  BY DEF Ids
<1> HIDE DEF S
<1>5. Max(S) \in Nat /\ last <= Max(S) /\ \A p \in rows : p.id <= Max(S)
  BY <1>1, <1>3, <1>4
<1> QED BY <1>5 DEF S

LEMMA NoCallFacts == Carries(NoCall)
BY DEF Carries, NoCall

LEMMA PoliciesInitial == Init => PoliciesInv
<1> SUFFICES ASSUME Init PROVE PoliciesInv
  OBVIOUS
<1>1. PoliciesInit
  BY DEF Init
<1>2. policies \subseteq Policy /\ IsFiniteSet(policies)
  BY <1>1, PoliciesAssumption DEF PoliciesInit
<1>3. numbered \in Nat /\ \A p \in policies : p.id <= numbered
  BY <1>1, <1>2, LargestFacts DEF PoliciesInit
<1>4. calls = [c \in Clients |-> calls[c]] /\ \A c \in Clients : calls[c] = NoCall
  BY <1>1 DEF PoliciesInit
<1> QED BY <1>2, <1>3, <1>4, NoCallFacts DEF PoliciesInv, PoliciesTypeOK

\* An update leaves a policy of the same job with the same id.
LEMMA UpdatedPolicy ==
  ASSUME NEW p \in Policy, NEW call, call.op = "update", Carries(call)
  PROVE  LET new == [p EXCEPT !.is = [f \in Fields |->
                       IF f \in DOMAIN call.body THEN call.body[f] ELSE p.is[f]]]
         IN  new \in Policy /\ new.id = p.id
<1> DEFINE is == [f \in Fields |-> IF f \in DOMAIN call.body THEN call.body[f] ELSE p.is[f]]
<1>1. PICK b \in Body : \A f \in DOMAIN call.body : call.body[f] = b[f]
  BY DEF Carries
<1>2. p.is \in Body
  BY DEF Policy
<1>3. \A f \in Fields : is[f] \in {b[f], p.is[f]}
  BY <1>1
<1>4. is \in Body
  <2>1. is["trigger"] \in Trigger /\ is["limit"] \in Limits \cup {None} /\ is["active"] \in BOOLEAN
    BY <1>2, <1>3 DEF Body, Fields
  <2>2. is = [trigger |-> is["trigger"], limit |-> is["limit"], active |-> is["active"]]
    BY DEF Fields
  <2> QED BY <2>1, <2>2 DEF Body
<1> HIDE DEF is
<1>5. [p EXCEPT !.is = is] \in Policy /\ [p EXCEPT !.is = is].id = p.id
  BY <1>4 DEF Policy
<1> QED BY <1>5 DEF is

\* What a commit leaves is a finite set of policies.
LEMMA CommittedFacts ==
  ASSUME PoliciesInv, NEW c \in Clients, calls[c] # NoCall, sqlite \in BOOLEAN
  PROVE  Committed(calls[c]) \subseteq Policy /\ IsFiniteSet(Committed(calls[c]))
<1> DEFINE call == calls[c]
<1>1. /\ call.op \in {"create", "update", "delete"} /\ call.job \in Jobs /\ Carries(call)
      /\ policies \subseteq Policy /\ IsFiniteSet(policies)
  BY DEF PoliciesInv, PoliciesTypeOK
<1>2. CASE call.op = "create"
  <2> DEFINE new == [id |-> NewId(policies, numbered), job |-> call.job, is |-> call.body]
  <2>1. NewId(policies, numbered) \in Nat \ {0}
    BY NewIdFacts DEF PoliciesInv, PoliciesTypeOK, Policy
  <2>2. new \in Policy
    BY <1>1, <1>2, <2>1 DEF Carries, Policy
  <2>3. Committed(call) = policies \cup {new}
    BY <1>2 DEF Committed
  <2> HIDE DEF new
  <2> QED BY <1>1, <2>2, <2>3, FS_AddElement
<1>3. CASE call.op = "update"
  <2> DEFINE new(p) == IF p.id = call.id
            THEN [p EXCEPT !.is = [f \in Fields |->
                    IF f \in DOMAIN call.body THEN call.body[f] ELSE p.is[f]]]
            ELSE p
             f == [p \in policies |-> new(p)]
  <2>1. Committed(call) = {new(p) : p \in policies}
    BY <1>3 DEF Committed
  <2>2. \A p \in policies : new(p) \in Policy
    BY <1>1, <1>3, UpdatedPolicy
  <2> HIDE DEF new
  <2>3. f \in Surjection(policies, {new(p) : p \in policies})
    BY DEF Surjection
  <2> QED BY <1>1, <2>1, <2>2, <2>3, FS_Surjection
<1>4. CASE call.op = "delete"
  <2>1. Committed(call) \in SUBSET policies
    BY <1>4 DEF Committed
  <2> QED BY <1>1, <2>1, FS_Subset
<1> QED BY <1>1, <1>2, <1>3, <1>4

\* What requests and commits do to the table; nothing else touches it.
LEMMA PoliciesStep ==
  ASSUME PoliciesInv, [Next]_vars, sqlite \in BOOLEAN
  PROVE  PoliciesInv'
<1>1. ASSUME UNCHANGED policyVars PROVE PoliciesInv'
  BY <1>1 DEF PoliciesInv, PoliciesTypeOK, policyVars
<1>2. ASSUME NEW c \in Clients, ReceiveCall(c) PROVE PoliciesInv'
  <2>1. PICK call : /\ calls' = [calls EXCEPT ![c] = call]
                    /\ call.op \in {"create", "update", "delete"} /\ Carries(call)
                    /\ call.id \in 0..numbered /\ call.job \in Jobs
                    /\ UNCHANGED <<policies, numbered>>
    <3>1. CASE \E j \in Jobs, b \in Complete : CreatePolicy(c, j, b)
      <4>1. PICK j \in Jobs, b \in Complete : CreatePolicy(c, j, b)
        BY <3>1
      <4> DEFINE call == [op |-> "create", id |-> 0, job |-> j, body |-> b]
      <4>2. Carries(call)
        BY PoliciesAssumption DEF Carries
      <4>3. call.id \in 0..numbered
        BY DEF PoliciesInv, PoliciesTypeOK
      <4>4. calls' = [calls EXCEPT ![c] = call] /\ UNCHANGED <<policies, numbered>>
        BY <4>1 DEF CreatePolicy, Prepare
      <4> QED BY <4>2, <4>3, <4>4
    <3>2. CASE \E p \in policies : DeletePolicy(c, p)
      <4>1. PICK p \in policies : DeletePolicy(c, p)
        BY <3>2
      <4> DEFINE call == [op |-> "delete", id |-> p.id, job |-> p.job, body |-> << >>]
      <4>2. Carries(call)
        BY DEF Carries
      <4>3. call.id \in 0..numbered /\ call.job \in Jobs
        BY DEF PoliciesInv, PoliciesTypeOK, Policy
      <4>4. calls' = [calls EXCEPT ![c] = call] /\ UNCHANGED <<policies, numbered>>
        BY <4>1 DEF DeletePolicy, Prepare
      <4> QED BY <4>2, <4>3, <4>4
    <3>3. CASE \E p \in policies, b \in Partial : ChangePolicy(c, p, b)
      <4>1. PICK p \in policies, b \in Partial : ChangePolicy(c, p, b)
        BY <3>3
      <4> DEFINE body == [f \in {g \in DOMAIN b : b[g] # p.is[g]} |-> b[f]]
                 call == [op |-> "update", id |-> p.id, job |-> p.job, body |-> body]
      <4>2. PICK full \in Body, fs \in SUBSET Fields : b = [f \in fs |-> full[f]]
        BY PoliciesAssumption
      <4>3. DOMAIN body \subseteq Fields /\ \A f \in DOMAIN body : body[f] = full[f]
        BY <4>2
      <4> HIDE DEF body
      <4>4. Carries(call)
        BY <4>3 DEF Carries
      <4>5. call.id \in 0..numbered /\ call.job \in Jobs
        BY DEF PoliciesInv, PoliciesTypeOK, Policy
      <4>6. calls' = [calls EXCEPT ![c] = call] /\ UNCHANGED <<policies, numbered>>
        BY <4>1 DEF ChangePolicy, Prepare, body
      <4> QED BY <4>4, <4>5, <4>6
    <3> QED BY <1>2, <3>1, <3>2, <3>3 DEF ReceiveCall
  <2>2. calls' = [x \in Clients |-> calls'[x]]
    BY <2>1 DEF PoliciesInv
  <2>3. \A x \in Clients : calls'[x] = IF x = c THEN call ELSE calls[x]
    BY <2>1 DEF PoliciesInv
  <2>4. PoliciesTypeOK'
    BY <2>1, <2>3 DEF PoliciesInv, PoliciesTypeOK
  <2> QED BY <2>1, <2>2, <2>3, <2>4 DEF PoliciesInv
<1>3. ASSUME NEW c \in Clients, CommitCall(c) PROVE PoliciesInv'
  <2>1. policies' \subseteq Policy /\ IsFiniteSet(policies')
    BY <1>3, CommittedFacts DEF CommitCall
  <2>2. numbered \in Nat
    BY DEF PoliciesInv, PoliciesTypeOK
  <2>3. numbered' \in Nat /\ numbered <= numbered' /\ \A p \in policies' : p.id <= numbered'
    BY <1>3, <2>1, <2>2, LargestFacts DEF CommitCall
  <2>4. calls' = [x \in Clients |-> calls'[x]]
    BY <1>3 DEF PoliciesInv, CommitCall
  <2>5. \A x \in Clients : calls'[x] = IF x = c THEN NoCall ELSE calls[x]
    BY <1>3 DEF PoliciesInv, CommitCall
  <2>6. PoliciesTypeOK'
    <3>1. ASSUME NEW x \in Clients, calls'[x] # NoCall
          PROVE  /\ calls'[x].op \in {"create", "update", "delete"}
                 /\ calls'[x].id \in 0..numbered' /\ calls'[x].job \in Jobs
      <4>1. calls'[x] = calls[x] /\ calls[x] # NoCall
        BY <2>5, <3>1
      <4>2. /\ calls[x].op \in {"create", "update", "delete"}
            /\ calls[x].id \in 0..numbered /\ calls[x].job \in Jobs
        BY <4>1 DEF PoliciesInv, PoliciesTypeOK
      <4> QED BY <2>2, <2>3, <4>1, <4>2
    <3> QED BY <2>1, <2>3, <3>1 DEF PoliciesTypeOK
  <2> QED BY <2>1, <2>4, <2>5, <2>6, NoCallFacts DEF PoliciesInv
<1>4. CASE Restart
  <2>1. calls' = [c \in Clients |-> NoCall] /\ UNCHANGED <<policies, numbered>>
    BY <1>4 DEF Restart, PoliciesRestart
  <2>2. calls' = [c \in Clients |-> calls'[c]] /\ \A c \in Clients : calls'[c] = NoCall
    BY <2>1
  <2> QED BY <2>1, <2>2, NoCallFacts DEF PoliciesInv, PoliciesTypeOK
<1>5. CASE Policies
  BY <1>2, <1>3, <1>5 DEF Policies
<1>6. CASE \E r \in Runs : Fire(r) \/ Webhook(r) \/ Step(r)
  <2>1. UNCHANGED policyVars
    BY <1>6 DEF Fire, Webhook, Begin, Step, MergeParams, Load, Resolve, Execute, Break,
                Consider, Reported, Go
  <2> QED BY <1>1, <2>1
<1>7. CASE Secrets \/ EditJob
  BY <1>1, <1>7 DEF Secrets, EditJob
<1>8. CASE UNCHANGED vars
  BY <1>1, <1>8 DEF vars
<1> QED BY <1>4, <1>5, <1>6, <1>7, <1>8 DEF Next

--------------------------------------------------------------------------------
(* A run and its alerts.                                                   *)

\* A policy is among those notified exactly if the run has looked at it and it was
\* due, and none is there twice.
Notified(run) ==
  /\ run.sent \in Seq(run.loaded)
  /\ \A i, k \in 1..Len(run.sent) : run.sent[i] = run.sent[k] => i = k
  /\ \A p \in run.loaded :
       (\E i \in 1..Len(run.sent) : run.sent[i] = p)
         <=> p \notin run.todo /\ Due(p, run.status, run.duration)

Reporting(run) ==
  /\ run.stage \in {"idle", "merge", "load", "resolve", "execute", "report"}
  /\ IsEnv(run.env) /\ IsEnv(run.merged)
  /\ IsFiniteSet(run.loaded) /\ run.todo \subseteq run.loaded
  /\ run.standing \subseteq run.loaded
  /\ Len(run.sent) + Cardinality(run.todo) <= Cardinality(run.loaded)
  /\ IF run.stage = "report" THEN Notified(run) ELSE run.sent = << >> /\ run.todo = {}

Bounded ==
  started \in 0..MaxRuns /\ called \in 0..MaxCalls

RunsInv == Bounded /\ \A r \in Runs : Reporting(runs[r])

ContextInv == VaultInv /\ PoliciesInv /\ RunShape /\ RunsInv

\* A run that has not begun to report.
LEMMA EarlyReporting ==
  ASSUME NEW run, run.stage \in {"idle", "merge", "load", "resolve", "execute"},
         IsEnv(run.env), IsEnv(run.merged), IsFiniteSet(run.loaded),
         run.standing \subseteq run.loaded, run.sent = << >>, run.todo = {}
  PROVE  Reporting(run)
<1>1. Cardinality(run.loaded) \in Nat /\ Cardinality(run.todo) = 0 /\ Len(run.sent) = 0
  BY FS_CardinalityType, FS_EmptySet
<1> QED BY <1>1 DEF Reporting

LEMMA NoEnvFacts == IsEnv(NoEnv)
BY DEF IsEnv, NoEnv

LEMMA NoRunReporting == Reporting(NoRun)
<1>1. PICK run : run = NoRun
  OBVIOUS
<1>2. /\ run.stage = "idle" /\ run.env = NoEnv /\ run.merged = NoEnv
      /\ run.loaded = {} /\ run.standing = {} /\ run.sent = << >> /\ run.todo = {}
  BY <1>1 DEF NoRun
<1>3. IsEnv(run.env) /\ IsEnv(run.merged)
  BY <1>2, NoEnvFacts
<1>4. IsFiniteSet(run.loaded) /\ Cardinality(run.loaded) = 0 /\ Cardinality(run.todo) = 0
  BY <1>2, FS_EmptySet
<1>5. Len(run.sent) = 0
  BY <1>2
<1>6. Reporting(run)
  BY <1>2, <1>3, <1>4, <1>5 DEF Reporting
<1> QED BY <1>1, <1>6

\* What is merged or resolved is an environment.
LEMMA MergedIsEnv ==
  ASSUME NEW env, NEW ps, IsEnv(env), IsEnv(ps)
  PROVE  IsEnv(Merge(env, ps))
BY DEF IsEnv, Merge

LEMMA ResolvedIsEnv ==
  ASSUME NEW env, IsEnv(env), NEW value, \A n \in References(env) : value[n] \in Values
  PROVE  IsEnv(Substitute(env, value))
<1> SUFFICES ASSUME NEW x \in DOMAIN env PROVE Substitute(env, value)[x] \in Texts
  BY DEF IsEnv, Substitute
<1>1. env[x] \in Texts
  BY DEF IsEnv
<1>2. CASE env[x].kind = "secret"
  <2>1. env[x].of \in References(env)
    BY <1>2 DEF References
  <2>2. Plain(value[env[x].of]) \in Texts
    BY <2>1 DEF Plain, Texts
  <2>3. Substitute(env, value)[x] = Plain(value[env[x].of])
    BY <1>2 DEF Substitute
  <2> QED BY <2>2, <2>3
<1>3. CASE env[x].kind # "secret"
  BY <1>1, <1>3 DEF Substitute
<1> QED BY <1>2, <1>3

LEMMA BoundedInitial == Init => RunsInv
<1> SUFFICES ASSUME Init PROVE RunsInv
  OBVIOUS
<1>1. \A r \in Runs : runs[r] = NoRun
  BY DEF Init
<1>2. Bounded
  BY ContextAssumption DEF Init, Bounded
<1> QED BY <1>1, <1>2, NoRunReporting DEF RunsInv

\* A step of a run replaces that run only.
LEMMA GoReporting ==
  ASSUME RunShape, RunsInv, NEW r \in Runs, NEW run, Reporting(run), Go(r, run)
  PROVE  RunsInv'
<1>1. runs' = [runs EXCEPT ![r] = run] /\ UNCHANGED <<started, called>>
  BY DEF Go
<1>2. \A x \in Runs : runs'[x] = IF x = r THEN run ELSE runs[x]
  BY <1>1 DEF RunShape
<1> QED BY <1>1, <1>2 DEF RunsInv, Bounded

LEMMA BeginReporting ==
  ASSUME RunShape, RunsInv, NEW r \in Runs, Fire(r) \/ Webhook(r)
  PROVE  RunsInv'
<1>1. PICK j \in Jobs, stage \in {"load", "merge"},
             ps \in Params \cup {NoEnv} : Begin(r, j, stage, ps)
  BY DEF Fire, Webhook
<1> DEFINE run == [NoRun EXCEPT !.stage = stage, !.job = j, !.merged = ps]
<1>2. IsEnv(ps)
  BY ContextAssumption, NoEnvFacts
<1>3. /\ run.stage \in {"load", "merge"} /\ run.env = NoEnv /\ run.merged = ps
      /\ run.loaded = {} /\ run.standing = {} /\ run.sent = << >> /\ run.todo = {}
  BY DEF NoRun
<1> HIDE DEF run
<1>4. Reporting(run)
  BY <1>2, <1>3, NoEnvFacts, FS_EmptySet, EarlyReporting
<1>5. runs' = [runs EXCEPT ![r] = run] /\ UNCHANGED called /\ started < MaxRuns
      /\ started' = started + 1
  BY <1>1 DEF Begin, run
<1>6. \A x \in Runs : runs'[x] = IF x = r THEN run ELSE runs[x]
  BY <1>5 DEF RunShape
<1>7. Bounded'
  BY <1>5, ContextAssumption DEF RunsInv, Bounded
<1> QED BY <1>4, <1>6, <1>7 DEF RunsInv

LEMMA MergeReporting ==
  ASSUME RunShape, RunsInv, NEW r \in Runs, MergeParams(r)
  PROVE  RunsInv'
<1> DEFINE copy == Merge(jobs[runs[r].job].env, runs[r].merged)
           run == [runs[r] EXCEPT !.stage = "load", !.merged = copy]
<1>1. Shaped(runs[r]) /\ Reporting(runs[r]) /\ runs[r].stage = "merge"
  BY DEF RunShape, RunsInv, MergeParams
<1>2. IsEnv(jobs[runs[r].job].env)
  BY <1>1, ContextAssumption DEF Shaped, RunShape
<1>3. IsEnv(copy)
  BY <1>1, <1>2, MergedIsEnv DEF Reporting
<1> HIDE DEF copy
<1>4. /\ run.stage = "load" /\ run.merged = copy /\ run.env = runs[r].env
      /\ run.loaded = runs[r].loaded /\ run.standing = runs[r].standing
      /\ run.sent = runs[r].sent /\ run.todo = runs[r].todo
  BY <1>1 DEF Shaped, RunFields
<1>5. Go(r, run)
  BY DEF MergeParams, copy
<1> HIDE DEF run
<1>6. Reporting(run)
  BY <1>1, <1>3, <1>4, EarlyReporting DEF Reporting
<1> QED BY <1>5, <1>6, GoReporting

LEMMA LoadReporting ==
  ASSUME RunShape, RunsInv, PoliciesInv, NEW r \in Runs, Load(r)
  PROVE  RunsInv'
<1> DEFINE row == jobs[runs[r].job]
           own == PoliciesOf(runs[r].job)
           run == [runs[r] EXCEPT !.stage = "resolve", !.env = row.env, !.merged = NoEnv,
                                  !.loaded = own, !.standing = own]
<1>1. Shaped(runs[r]) /\ Reporting(runs[r]) /\ runs[r].stage = "load"
  BY DEF RunShape, RunsInv, Load
<1>2. IsEnv(row.env)
  BY <1>1, ContextAssumption DEF Shaped, RunShape
<1>3. IsFiniteSet(own)
  <2>1. own \in SUBSET policies
    BY DEF PoliciesOf
  <2> QED BY <2>1, FS_Subset DEF PoliciesInv
<1> HIDE DEF row, own
<1>4. /\ run.stage = "resolve" /\ run.merged = NoEnv /\ run.env = row.env
      /\ run.loaded = own /\ run.standing = own
      /\ run.sent = runs[r].sent /\ run.todo = runs[r].todo
  BY <1>1 DEF Shaped, RunFields
<1>5. Go(r, run) \/ Go(r, NoRun)
  BY DEF Load, row, own
<1> HIDE DEF run
<1>6. Reporting(run)
  BY <1>1, <1>2, <1>3, <1>4, NoEnvFacts, EarlyReporting DEF Reporting
<1> QED BY <1>5, <1>6, NoRunReporting, GoReporting

LEMMA ResolveReporting ==
  ASSUME RunShape, RunsInv, VaultInv, NEW r \in Runs, Resolve(r)
  PROVE  RunsInv'
<1> DEFINE env  == runs[r].env
           refs == References(env)
           rows == {s \in secrets : s.name \in refs}
           Pick == {c \in [refs -> rows] : \A n \in refs : c[n].name = n}
           With(e) == [runs[r] EXCEPT !.stage = "execute", !.env = e]
<1>1. Shaped(runs[r]) /\ Reporting(runs[r]) /\ runs[r].stage = "resolve"
  BY DEF RunShape, RunsInv, Resolve
<1>2. PICK e : IsEnv(e) /\ Go(r, With(e))
  <2>1. CASE \E c \in Pick :
          Go(r, With(Substitute(env, [n \in refs |-> c[n].cipher.value])))
    <3>1. PICK c \in Pick :
            Go(r, With(Substitute(env, [n \in refs |-> c[n].cipher.value])))
      BY <2>1
    <3>2. \A n \in refs : c[n] \in secrets
      OBVIOUS
    <3>3. \A n \in refs : c[n].cipher.value \in Values
      BY <3>2 DEF VaultInv, VaultTypeOK, Row, Cipher
    <3> DEFINE value == [n \in refs |-> c[n].cipher.value]
    <3>4. \A n \in References(env) : value[n] \in Values
      BY <3>3
    <3>5. IsEnv(env)
      BY <1>1 DEF Reporting
    <3> HIDE DEF env, value
    <3>6. IsEnv(Substitute(env, value))
      BY <3>4, <3>5, ResolvedIsEnv
    <3> QED BY <3>1, <3>6 DEF value
  <2>2. CASE Go(r, [runs[r] EXCEPT !.stage = "execute"])
    <3>1. [runs[r] EXCEPT !.stage = "execute"] = With(runs[r].env)
      BY <1>1 DEF Shaped, RunFields
    <3> HIDE DEF With
    <3> QED BY <1>1, <2>2, <3>1 DEF Reporting
  <2> QED BY <2>1, <2>2 DEF Resolve
<1> DEFINE run == With(e)
<1>3. /\ run.stage = "execute" /\ run.merged = runs[r].merged /\ run.env = e
      /\ run.loaded = runs[r].loaded /\ run.standing = runs[r].standing
      /\ run.sent = runs[r].sent /\ run.todo = runs[r].todo
  BY <1>1 DEF Shaped, RunFields
<1> HIDE DEF With
<1>4. Reporting(run)
  BY <1>1, <1>2, <1>3, EarlyReporting DEF Reporting
<1> QED BY <1>2, <1>4, GoReporting

LEMMA ExecuteReporting ==
  ASSUME RunShape, RunsInv, NEW r \in Runs, Execute(r)
  PROVE  RunsInv'
<1>1. PICK s, d : Go(r, [runs[r] EXCEPT !.stage = "report", !.status = s,
                   !.duration = d, !.env = NoEnv, !.todo = runs[r].loaded])
  BY DEF Execute
<1> DEFINE run == [runs[r] EXCEPT !.stage = "report", !.status = s,
                   !.duration = d, !.env = NoEnv, !.todo = runs[r].loaded]
<1>2. Shaped(runs[r]) /\ Reporting(runs[r]) /\ runs[r].stage = "execute"
  BY DEF RunShape, RunsInv, Execute
<1>3. /\ run.stage = "report" /\ run.merged = runs[r].merged /\ run.env = NoEnv
      /\ run.loaded = runs[r].loaded /\ run.standing = runs[r].standing
      /\ run.sent = runs[r].sent /\ run.todo = runs[r].loaded
  BY <1>2 DEF Shaped, RunFields
<1> HIDE DEF run
<1>4. run.sent = << >> /\ IsFiniteSet(run.loaded)
  BY <1>2, <1>3 DEF Reporting
<1>5. Len(run.sent) = 0 /\ run.sent \in Seq(run.loaded)
  BY <1>4
<1>6. Notified(run)
  BY <1>3, <1>5 DEF Notified
<1>7. Len(run.sent) + Cardinality(run.todo) <= Cardinality(run.loaded)
  BY <1>3, <1>4, <1>5, FS_CardinalityType
<1>8. Reporting(run)
  BY <1>2, <1>3, <1>4, <1>6, <1>7, NoEnvFacts DEF Reporting
<1> QED BY <1>1, <1>8, GoReporting DEF run
\* What a sequence is with one more element.
LEMMA Appended ==
  ASSUME NEW S, NEW s \in Seq(S), NEW x \in S
  PROVE  /\ Append(s, x) \in Seq(S) /\ Len(Append(s, x)) = Len(s) + 1
         /\ \A i \in 1..Len(s) : Append(s, x)[i] = s[i]
         /\ Append(s, x)[Len(s) + 1] = x
BY AppendProperties

\* The next policy is appended if it is due, and looked at once.
LEMMA ConsiderReporting ==
  ASSUME RunShape, RunsInv, NEW r \in Runs, Consider(r)
  PROVE  RunsInv'
<1> DEFINE old == runs[r]
           due(p) == Due(p, old.status, old.duration)
           after(p) == IF due(p) THEN Append(old.sent, p) ELSE old.sent
           run(p) == [old EXCEPT !.todo = old.todo \ {p}, !.sent = after(p)]
<1>1. Shaped(old) /\ Reporting(old) /\ old.stage = "report"
  BY DEF RunShape, RunsInv, Consider
<1>2. PICK p \in old.todo : Go(r, run(p))
  <2>1. PICK p \in old.todo : Go(r, [old EXCEPT !.todo = @ \ {p}, !.sent =
               IF Due(p, old.status, old.duration) THEN Append(@, p) ELSE @])
    BY DEF Consider
  <2>2. [old EXCEPT !.todo = @ \ {p}, !.sent =
               IF Due(p, old.status, old.duration) THEN Append(@, p) ELSE @] = run(p)
    OBVIOUS
  <2> QED BY <2>1, <2>2
<1> DEFINE new == run(p)
<1>3. /\ new.stage = "report" /\ new.merged = old.merged /\ new.env = old.env
      /\ new.loaded = old.loaded /\ new.standing = old.standing
      /\ new.status = old.status /\ new.duration = old.duration
      /\ new.sent = after(p) /\ new.todo = old.todo \ {p}
  BY <1>1 DEF Shaped, RunFields
<1> HIDE DEF new, run
<1>4. Notified(old) /\ p \in old.loaded
  BY <1>1, <1>2 DEF Reporting
<1>5. \A i \in 1..Len(old.sent) : old.sent[i] # p
  BY <1>2, <1>4 DEF Notified
<1>6. Notified(new) /\ Len(new.sent) <= Len(old.sent) + 1
  <2>1. CASE due(p)
    <3>1. /\ new.sent \in Seq(old.loaded) /\ Len(new.sent) = Len(old.sent) + 1
          /\ \A i \in 1..Len(old.sent) : new.sent[i] = old.sent[i]
          /\ new.sent[Len(old.sent) + 1] = p
      <4>1. new.sent = Append(old.sent, p)
        BY <1>3, <2>1
      <4>2. old.sent \in Seq(old.loaded) /\ p \in old.loaded
        BY <1>4 DEF Notified
      <4> HIDE DEF old, after, due
      <4>3. Append(old.sent, p) \in Seq(old.loaded)
        BY <4>2, Appended, Zenon
      <4>4. Len(Append(old.sent, p)) = Len(old.sent) + 1
        BY <4>2
      <4>5. /\ \A i \in 1..Len(old.sent) : Append(old.sent, p)[i] = old.sent[i]
            /\ Append(old.sent, p)[Len(old.sent) + 1] = p
        BY <4>2, Appended
      <4> QED BY <4>1, <4>3, <4>5, <4>4
    <3>2. Len(old.sent) \in Nat
      BY <1>4 DEF Notified
    <3>3. \A i \in 1..Len(new.sent) : i \in 1..Len(old.sent) \/ i = Len(old.sent) + 1
      BY <3>1, <3>2
    <3>4. \A i, k \in 1..Len(new.sent) : new.sent[i] = new.sent[k] => i = k
      <4>1. SUFFICES ASSUME NEW i \in 1..Len(new.sent), NEW k \in 1..Len(new.sent),
                            new.sent[i] = new.sent[k]
                     PROVE  i = k
        OBVIOUS
      <4>2. CASE i \in 1..Len(old.sent) /\ k \in 1..Len(old.sent)
        <5>1. old.sent[i] = old.sent[k]
          BY <3>1, <4>1, <4>2
        <5> QED BY <1>4, <4>2, <5>1 DEF Notified
      <4>3. CASE i \in 1..Len(old.sent) /\ k = Len(old.sent) + 1
        BY <1>5, <3>1, <4>1, <4>3
      <4>4. CASE k \in 1..Len(old.sent) /\ i = Len(old.sent) + 1
        BY <1>5, <3>1, <4>1, <4>4
      <4> QED BY <3>3, <4>2, <4>3, <4>4
    <3>5. ASSUME NEW x
          PROVE  (\E i \in 1..Len(new.sent) : new.sent[i] = x)
                   <=> x = p \/ \E i \in 1..Len(old.sent) : old.sent[i] = x
      <4>1. \A i \in 1..Len(old.sent) : i \in 1..Len(new.sent)
        BY <3>1, <3>2
      <4>2. Len(old.sent) + 1 \in 1..Len(new.sent)
        BY <3>1, <3>2
      <4> QED BY <3>1, <3>3, <4>1, <4>2
    <3>6. ASSUME NEW x \in new.loaded
          PROVE  (\E i \in 1..Len(new.sent) : new.sent[i] = x)
                   <=> x \notin new.todo /\ Due(x, new.status, new.duration)
      <4>1. CASE x = p
        BY <1>3, <2>1, <3>5, <4>1
      <4>2. CASE x # p
        BY <1>3, <1>4, <3>5, <4>2 DEF Notified
      <4> QED BY <4>1, <4>2
    <3>7. new.sent \in Seq(new.loaded)
      BY <1>3, <3>1
    <3> QED BY <3>1, <3>4, <3>6, <3>7, <3>2 DEF Notified
  <2>2. CASE ~ due(p)
    <3>1. new.sent = old.sent
      BY <1>3, <2>2
    <3>2. ASSUME NEW x \in new.loaded
          PROVE  (\E i \in 1..Len(new.sent) : new.sent[i] = x)
                   <=> x \notin new.todo /\ Due(x, new.status, new.duration)
      <4>1. CASE x = p
        BY <1>3, <1>5, <2>2, <3>1, <4>1
      <4>2. CASE x # p
        BY <1>3, <1>4, <3>1, <4>2 DEF Notified
      <4> QED BY <4>1, <4>2
    <3>3. new.sent \in Seq(new.loaded) /\ Len(old.sent) \in Nat
      BY <1>3, <1>4, <3>1 DEF Notified
    <3> QED BY <1>4, <3>1, <3>2, <3>3 DEF Notified
  <2> QED BY <2>1, <2>2
<1>7. Len(new.sent) + Cardinality(new.todo) <= Cardinality(new.loaded)
  <2>1. IsFiniteSet(old.todo)
    <3>1. old.todo \in SUBSET old.loaded /\ IsFiniteSet(old.loaded)
      BY <1>1 DEF Reporting
    <3> QED BY <3>1, FS_Subset
  <2>2. Cardinality(new.todo) = Cardinality(old.todo) - 1
    BY <1>2, <1>3, <2>1, FS_RemoveElement
  <2>3. Len(old.sent) + Cardinality(old.todo) <= Cardinality(old.loaded)
    BY <1>1 DEF Reporting
  <2>4. Cardinality(old.todo) \in Nat /\ Cardinality(old.loaded) \in Nat
    BY <1>1, <2>1, FS_CardinalityType DEF Reporting
  <2>5. Len(old.sent) \in Nat /\ Len(new.sent) \in Nat
    BY <1>4, <1>6 DEF Notified
  <2> QED BY <1>3, <1>6, <2>2, <2>3, <2>4, <2>5
<1>8. Reporting(new)
  BY <1>1, <1>3, <1>6, <1>7 DEF Reporting
<1> QED BY <1>2, <1>8, GoReporting DEF new

\* What stands is only ever less.
LEMMA ObserveReporting ==
  ASSUME RunShape, NEW r \in Runs, Reporting(runs[r]), Observe
  PROVE  Reporting(runs'[r])
<1> DEFINE old == runs[r]
           new == runs'[r]
<1>1. Shaped(old) /\ new = [old EXCEPT !.standing = @ \cap policies']
  BY DEF RunShape, Observe
<1>2. /\ new.stage = old.stage /\ new.merged = old.merged /\ new.env = old.env
      /\ new.loaded = old.loaded /\ new.standing = old.standing \cap policies'
      /\ new.status = old.status /\ new.duration = old.duration
      /\ new.sent = old.sent /\ new.todo = old.todo
  BY <1>1 DEF Shaped, RunFields
<1> HIDE DEF new, old
<1>3. Reporting(old)
  BY DEF old
<1>4. Notified(old) => Notified(new)
  BY <1>2 DEF Notified
<1>5. Reporting(new)
  BY <1>2, <1>3, <1>4 DEF Reporting
<1> QED BY <1>5 DEF new

LEMMA RunsStep ==
  ASSUME RunShape, RunsInv, PoliciesInv, VaultInv, [Next]_vars
  PROVE  RunsInv'
<1>1. ASSUME NEW r \in Runs, Step(r) PROVE RunsInv'
  <2>1. CASE Break(r) \/ Reported(r)
    BY <2>1, NoRunReporting, GoReporting DEF Break, Reported
  <2> QED BY <1>1, <2>1, MergeReporting, LoadReporting, ResolveReporting,
             ExecuteReporting, ConsiderReporting DEF Step
<1>2. CASE Secrets
  <2>1. UNCHANGED <<runs, started>>
    BY <1>2 DEF Secrets
  <2>2. called' = called \/ (called < MaxCalls /\ called' = called + 1)
    BY <1>2 DEF Secrets
  <2> QED BY <2>1, <2>2, ContextAssumption DEF RunsInv, Bounded
<1>3. CASE Policies
  <2>1. Observe /\ UNCHANGED started
    BY <1>3 DEF Policies
  <2>2. called' = called \/ (called < MaxCalls /\ called' = called + 1)
    BY <1>3 DEF Policies
  <2>3. \A r \in Runs : Reporting(runs'[r])
    BY <2>1, ObserveReporting DEF RunsInv
  <2> QED BY <2>1, <2>2, <2>3, ContextAssumption DEF RunsInv, Bounded
<1>4. CASE EditJob
  BY <1>4, ContextAssumption DEF EditJob, RunsInv, Bounded
<1>5. CASE Restart
  <2>1. /\ runs' = [r \in Runs |-> NoRun] /\ UNCHANGED started
        /\ called < MaxCalls /\ called' = called + 1
    BY <1>5 DEF Restart
  <2>2. \A r \in Runs : runs'[r] = NoRun
    BY <2>1
  <2> QED BY <2>1, <2>2, NoRunReporting, ContextAssumption DEF RunsInv, Bounded
<1>6. CASE UNCHANGED vars
  BY <1>6 DEF vars, RunsInv, Bounded
<1> QED BY <1>1, <1>2, <1>3, <1>4, <1>5, <1>6, BeginReporting DEF Next

LEMMA ContextInvariant == Spec => []ContextInv
<1>1. Init => ContextInv
  BY VaultInitial, PoliciesInitial, ShapeInitial, BoundedInitial DEF ContextInv
<1>2. ContextInv /\ [Next]_vars => ContextInv'
  <2> SUFFICES ASSUME ContextInv, [Next]_vars PROVE ContextInv'
    OBVIOUS
  <2>1. sqlite \in BOOLEAN
    BY DEF ContextInv, VaultInv, VaultTypeOK
  <2> QED BY <2>1, VaultStep, PoliciesStep, ShapeStep, RunsStep DEF ContextInv
<1> QED BY <1>1, <1>2, PTL DEF Spec

--------------------------------------------------------------------------------
\* Every reachable state is well typed; in particular no alert is sent beyond one for
\* each policy the run has loaded (notifier.py:115-154), and what a run is executed
\* with is an environment (secret_resolver.py:98-108).
THEOREM TypeCorrect == Spec => []TypeOK
<1>1. ContextInv => TypeOK
  BY DEF ContextInv, TypeOK, VaultInv, PoliciesInv, RunShape, RunsInv, Reporting, Bounded
<1> QED BY <1>1, ContextInvariant, PTL

\* When a run has gone through its policies, none of them was notified twice, and
\* those that nobody changed meanwhile were notified exactly if they are active and
\* match how the run ended (notifier.py:115-154), whatever requests for policies,
\* secrets and jobs came in between.
THEOREM AlertsAlwaysExact == Spec => []AlertsExact
<1>1. ASSUME ContextInv, NEW r \in Runs, runs[r].stage = "report", runs[r].todo = {},
             NEW p \in runs[r].loaded
      PROVE  LET n == Cardinality({i \in DOMAIN runs[r].sent : runs[r].sent[i] = p})
             IN  /\ n <= 1
                 /\ (n = 1) <=> Due(p, runs[r].status, runs[r].duration)
  <2> DEFINE run == runs[r]
             at  == {i \in DOMAIN run.sent : run.sent[i] = p}
  <2>1. Notified(run)
    BY <1>1 DEF ContextInv, RunsInv, Reporting
  <2>2. DOMAIN run.sent = 1..Len(run.sent)
    BY <2>1 DEF Notified
  <2>3. at # {} <=> Due(p, run.status, run.duration)
    BY <1>1, <2>1, <2>2 DEF Notified
  <2>4. \A i, k \in at : i = k
    BY <2>1, <2>2 DEF Notified
  <2> HIDE DEF at
  <2>5. CASE at = {}
    <3>1. Cardinality(at) = 0
      BY <2>5, FS_EmptySet
    <3> QED BY <2>3, <2>5, <3>1 DEF at
  <2>6. CASE at # {}
    <3>1. PICK i : at = {i}
      BY <2>4, <2>6
    <3>2. Cardinality(at) = 1
      BY <3>1, FS_Singleton
    <3> QED BY <2>3, <2>6, <3>2 DEF at
  <2> QED BY <2>5, <2>6
<1>2. ContextInv => AlertsExact
  <2> SUFFICES ASSUME ContextInv, NEW r \in Runs, runs[r].stage = "report", runs[r].todo = {}
      PROVE  LET times(p) == Cardinality({i \in DOMAIN runs[r].sent : runs[r].sent[i] = p})
                 due(p)   == Due(p, runs[r].status, runs[r].duration)
             IN  /\ \A p \in runs[r].loaded : times(p) <= 1
                 /\ \A p \in runs[r].standing : times(p) = 1 <=> due(p)
    BY DEF AlertsExact
  <2>1. runs[r].standing \subseteq runs[r].loaded
    BY DEF ContextInv, RunsInv, Reporting
  <2> QED BY <1>1, <2>1
<1> QED BY <1>2, ContextInvariant, PTL
================================================================================
