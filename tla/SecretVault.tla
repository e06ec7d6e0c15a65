------------------------------ MODULE SecretVault ------------------------------
(***************************************************************************)
(* The secrets table behind routers/secrets.py, with the Fernet key of     *)
(* core/vault.py.  A request reads the rows of its name and commits after  *)
(* a second await; nothing in the table makes names unique.                *)
(***************************************************************************)
EXTENDS TableRows

CONSTANTS
  Names,     \* secret names as clients and jobs spell them
  Upper,     \* the spelling in capitals of each of them
  Values,    \* plaintexts
  Keys,      \* keys VAULT_ENCRYPTION_KEY may hold
  Stored,    \* what the table may hold when the process starts
  Requests   \* slots for concurrent requests

VARIABLES
  key,      \* the configured key, or None
  secrets,  \* the rows of the table
  issued,   \* the largest id ever given to a row
  asks,     \* per request slot: what it has read and will commit
  latest,   \* history: the ciphertext the last successful request of a name left
  raced     \* history: the names that more than one request has been about at once

--------------------------------------------------------------------------------
vaultVars == <<key, secrets, issued, asks, latest, raced>>

\* What encrypt_secret returns: it can be read with the key it was made with.
Cipher == [key : Keys, value : Values]

Row == [id : Nat \ {0}, name : Names, cipher : Cipher]

ASSUME VaultAssumption ==
  /\ Upper \in [Names -> Names]
  /\ \A n \in Names : Upper[Upper[n]] = Upper[n]
  /\ None \notin Keys \cup Cipher
  /\ \A rows \in Stored :
       /\ rows \subseteq Row
       /\ rows # {} => \E last \in rows : \A s \in rows : s.id <= last.id
       /\ \A s, t \in rows : s.id = t.id \/ s.name = t.name => s = t

Idle == [op |-> "idle", id |-> 0, name |-> None, cipher |-> None]
Ask  == {Idle} \cup [op : {"insert", "update"}, id : Nat, name : Names, cipher : Cipher]
               \cup [op : {"delete"}, id : Nat, name : Names, cipher : {None}]

Named(n) == {s \in secrets : s.name = n}

VaultInit ==
  /\ sqlite \in BOOLEAN
  /\ key \in Keys \cup {None}
  /\ secrets \in Stored
  /\ issued = Max({0} \cup Ids(secrets))
  /\ asks = [q \in Requests |-> Idle]
  /\ latest \in [Names -> Cipher \cup {None}]
  /\ \A n \in Names : {s.cipher : s \in Named(n)} = {latest[n]} \ {None}
  /\ raced = {}

--------------------------------------------------------------------------------
\* A request is about a name if it is for that name or holds the id of its row.
About(q, n) ==
  /\ asks[q] # Idle
  /\ asks[q].name = n \/ \E s \in Named(n) : s.id = asks[q].id

Contended ==
  {n \in Names : \E p, q \in Requests :
     About(p, n) /\ About(q, n) /\ (p # q \/ asks[q].name # n)}

Watch == raced' = raced \cup Contended'

--------------------------------------------------------------------------------
\* Mutant of Upsert: the name is looked up as it was sent, not as it is stored.
UpsertAsSent(q, n, v) ==
  LET found == Named(n)
      ask(op, id) == [op |-> op, id |-> id, name |-> Upper[n],
                      cipher |-> [key |-> key, value |-> v]]
  IN  /\ asks[q] = Idle /\ key # None
      /\ \/ found = {} /\ asks' = [asks EXCEPT ![q] = ask("insert", 0)]
         \/ \E s \in found : asks' = [asks EXCEPT ![q] = ask("update", s.id)]
      /\ UNCHANGED <<sqlite, key, secrets, issued, latest>>
      /\ Watch

\* Without a key the answer is 503; scalar_one_or_none raises if it finds two rows.
Upsert(q, n, v) ==
  LET found == Named(Upper[n])
      ask(op, id) == [op |-> op, id |-> id, name |-> Upper[n],
                      cipher |-> [key |-> key, value |-> v]]
  IN  /\ asks[q] = Idle
      /\ key # None
      /\ \/ /\ found = {}
            /\ asks' = [asks EXCEPT ![q] = ask("insert", 0)]
         \/ \E s \in found :
              /\ found = {s}
              /\ asks' = [asks EXCEPT ![q] = ask("update", s.id)]
      /\ UNCHANGED <<sqlite, key, secrets, issued, latest>>
      /\ Watch

\* A missing secret is a 404, two rows of the name are an exception.
DeleteSecret(q, n) ==
  /\ asks[q] = Idle
  /\ \E s \in Named(Upper[n]) :
       /\ Named(Upper[n]) = {s}
       /\ asks' = [asks EXCEPT ![q] = [op |-> "delete", id |-> s.id,
                                       name |-> s.name, cipher |-> None]]
  /\ UNCHANGED <<sqlite, key, secrets, issued, latest>>
  /\ Watch

Answer(q) ==
  /\ latest' = [latest EXCEPT ![asks[q].name] = asks[q].cipher]
  /\ asks' = [asks EXCEPT ![q] = Idle]
  /\ Watch
  /\ UNCHANGED <<sqlite, key>>

Insert(q) ==
  LET id == NewId(secrets, issued)
  IN  /\ asks[q].op = "insert"
      /\ secrets' = secrets \cup
           {[id |-> id, name |-> asks[q].name, cipher |-> asks[q].cipher]}
      /\ issued' = Max({issued, id})
      /\ Answer(q)

\* The statement names the row by its id.
Update(q) ==
  /\ asks[q].op = "update"
  /\ \E s \in secrets : s.id = asks[q].id
  /\ secrets' = {IF s.id = asks[q].id THEN [s EXCEPT !.cipher = asks[q].cipher] ELSE s :
                 s \in secrets}
  /\ UNCHANGED issued
  /\ Answer(q)

\* An UPDATE that matches no row is a StaleDataError.
UpdateFails(q) ==
  /\ asks[q].op = "update"
  /\ \A s \in secrets : s.id # asks[q].id
  /\ asks' = [asks EXCEPT ![q] = Idle]
  /\ UNCHANGED <<sqlite, key, secrets, issued, latest>>
  /\ Watch

\* A DELETE that matches no row is only warned of.
Remove(q) ==
  /\ asks[q].op = "delete"
  /\ secrets' = {s \in secrets : s.id # asks[q].id}
  /\ UNCHANGED issued
  /\ Answer(q)

\* A new process, with the key that is configured by then.
VaultRestart ==
  /\ key' \in Keys \cup {None}
  /\ asks' = [q \in Requests |-> Idle]
  /\ UNCHANGED <<sqlite, secrets, issued, latest, raced>>

ReceiveSecret(q) == \E n \in Names : DeleteSecret(q, n) \/ \E v \in Values : Upsert(q, n, v)
SettleSecret(q) == Insert(q) \/ Update(q) \/ UpdateFails(q) \/ Remove(q)

Readable(s) == s.cipher.key = key

--------------------------------------------------------------------------------
VaultTypeOK ==
  /\ sqlite \in BOOLEAN /\ key \in Keys \cup {None}
  /\ secrets \subseteq Row
  /\ issued \in Nat /\ \A s \in secrets : s.id <= issued
  /\ asks \in [Requests -> Ask]
  /\ latest \in [Names -> Cipher \cup {None}]
  /\ raced \subseteq Names

\* The table holds what the answers said (secrets.py:67-148): unless requests about
\* a name overlapped, a name whose last successful request was an upsert has one
\* row, with the value sent, and a name that was deleted or never stored has none.
AsAnswered ==
  \A n \in Names \ raced :
    /\ {s.cipher : s \in Named(n)} = {latest[n]} \ {None}
    /\ \A s, t \in Named(n) : s = t
================================================================================
