------------------------- MODULE TopologicalSortProofs -------------------------
(***************************************************************************)
(* The correctness of the sort for every list of edges, over any set of    *)
(* jobs: a returned order is topological, and the ValueError is raised for *)
(* cyclic lists and for no others.                                         *)
(***************************************************************************)
EXTENDS TopologicalSort, TLAPS, FiniteSetTheorems, SequenceTheorems

Visited == {order[k] : k \in DOMAIN order}
Queued  == {queue[k] : k \in DOMAIN queue}
Known   == Visited \cup Queued

\* The edges into d that the loop has not followed yet.
Pending(d) == {i \in EdgesInto(edges, d) : edges[i].up \notin Visited}

Degrees == \A d \in Nodes(edges) : inDegree[d] = Cardinality(Pending(d))

Distinct ==
  /\ \A k, l \in DOMAIN order : order[k] = order[l] => k = l
  /\ \A k, l \in DOMAIN queue : queue[k] = queue[l] => k = l
  /\ Visited \cap Queued = {}

\* A job is visited or queued as soon as no edge into it is pending.
Frontier == \A d \in Nodes(edges) : d \in Known <=> Pending(d) = {}

\* Whatever was visited comes after everything upstream of it.
Ordered ==
  \A k \in DOMAIN order : \A i \in EdgesInto(edges, order[k]) :
    \E l \in DOMAIN order : l < k /\ order[l] = edges[i].up

\* Jobs that wait for each other are never reached.
Knot(S) == \A d \in S : \E i \in EdgesInto(edges, d) : edges[i].up \in S
Avoided == \A S \in SUBSET Nodes(edges) : Knot(S) => S \cap Known = {}

Decided ==
  result # "running" =>
    /\ queue = << >>
    /\ result = "sorted" <=> Len(order) = Cardinality(Nodes(edges))

IndInv == TypeOK /\ Degrees /\ Distinct /\ Frontier /\ Ordered /\ Avoided /\ Decided

--------------------------------------------------------------------------------
(* The graph.                                                              *)

\* The jobs of a list of edges are finitely many, and an edge joins two of them.
LEMMA GraphFacts ==
  ASSUME NEW es \in Seq(Edge)
  PROVE  /\ IsFiniteSet(Nodes(es))
         /\ IsFiniteSet(DOMAIN es)
         /\ \A i \in DOMAIN es : es[i] \in Edge /\ es[i].up \in Nodes(es) /\ es[i].down \in Nodes(es)
<1> DEFINE D == DOMAIN es
           U == {es[i].up : i \in D}
           V == {es[i].down : i \in D}
           fu == [i \in D |-> es[i].up]
           fd == [i \in D |-> es[i].down]
<1>1. D = 1 .. Len(es) /\ Len(es) \in Nat /\ \A i \in D : es[i] \in Edge
  BY LenProperties
<1>2. IsFiniteSet(D)
  BY <1>1, FS_Interval
<1>3. fu \in Surjection(D, U) /\ fd \in Surjection(D, V)
  BY DEF Surjection
<1>4. IsFiniteSet(U) /\ IsFiniteSet(V)
  <2> HIDE DEF fu, fd, U, V, D
  <2> QED BY <1>2, <1>3, FS_Surjection
<1>5. Nodes(es) = U \cup V
  BY DEF Nodes
<1>6. IsFiniteSet(U \cup V)
  <2> HIDE DEF U, V
  <2> QED BY <1>4, FS_Union
<1> QED
  BY <1>1, <1>2, <1>5, <1>6

\* The edges into a job are finitely many, and those from one job are among them.
LEMMA EdgeFacts ==
  ASSUME NEW es \in Seq(Edge), NEW d
  PROVE  /\ IsFiniteSet(EdgesInto(es, d)) /\ Cardinality(EdgesInto(es, d)) \in Nat
         /\ \A u : EdgesBetween(es, u, d) \subseteq EdgesInto(es, d)
  BY GraphFacts, FS_Subset, FS_CardinalityType DEF EdgesInto, EdgesBetween

\* A listing of a finite set of jobs is a sequence of them, each once.
LEMMA ListingFacts ==
  ASSUME NEW S, IsFiniteSet(S), NEW q \in Listings(S)
  PROVE  /\ q \in Seq(S)
         /\ {q[k] : k \in DOMAIN q} = S
         /\ \A k, l \in DOMAIN q : q[k] = q[l] => k = l
<1>1. Cardinality(S) \in Nat /\ q \in [1 .. Cardinality(S) -> S]
  BY FS_CardinalityType DEF Listings
<1> QED
  BY <1>1 DEF Listings

--------------------------------------------------------------------------------
(* The start.                                                              *)

\* Before the first iteration every edge is pending and the roots are queued.
LEMMA InitInd == Init => IndInv
<1> SUFFICES ASSUME Init
             PROVE  IndInv
  OBVIOUS
<1>1. edges \in Seq(Edge)
  BY InputAssumption DEF Init
<1>2. IsFiniteSet(Roots(edges)) /\ Roots(edges) \subseteq Nodes(edges)
  BY <1>1, GraphFacts, FS_Subset DEF Roots
<1>3. /\ queue \in Seq(Roots(edges))
      /\ Queued = Roots(edges)
      /\ \A k, l \in DOMAIN queue : queue[k] = queue[l] => k = l
  BY <1>2, ListingFacts DEF Init, Queued
<1>4. DOMAIN order = {} /\ Visited = {} /\ order \in Seq(Nodes(edges))
  BY DEF Init, Visited
<1>5. \A d : Pending(d) = EdgesInto(edges, d)
  BY <1>4 DEF Pending
<1>6. Degrees /\ inDegree \in [Nodes(edges) -> Nat]
  BY <1>1, <1>5, EdgeFacts DEF Init, Degrees, Degree
<1>7. TypeOK
  BY <1>1, <1>2, <1>3, <1>4, <1>6, SeqMonotonic DEF TypeOK, Init
<1>8. Distinct
  BY <1>3, <1>4 DEF Distinct
<1>9. Frontier
  BY <1>3, <1>4, <1>5 DEF Frontier, Known, Roots
<1>10. Ordered
  BY <1>4 DEF Ordered
<1>11. Avoided
  <2> SUFFICES ASSUME NEW S \in SUBSET Nodes(edges), Knot(S), NEW d \in S, d \in Known
               PROVE  FALSE
    BY DEF Avoided
  <2>1. EdgesInto(edges, d) = {}
    BY <1>3, <1>4 DEF Known, Roots
  <2> QED
    BY <2>1 DEF Knot
<1>12. Decided
  BY DEF Decided, Init
<1> QED
  BY <1>6, <1>7, <1>8, <1>9, <1>10, <1>11, <1>12 DEF IndInv

--------------------------------------------------------------------------------
(* An iteration.                                                           *)

\* An iteration reads the graph and the invariant through these sets alone.
LEMMA FreedFacts ==
  ASSUME IndInv, NEW n \in Queued, NEW d \in Nodes(edges)
  PROVE  /\ IsFiniteSet(Pending(d))
         /\ EdgesBetween(edges, n, d) \subseteq Pending(d)
         /\ Cardinality(Pending(d)) \in Nat
         /\ Cardinality(EdgesBetween(edges, n, d)) \in Nat
         /\ Cardinality(Pending(d) \ EdgesBetween(edges, n, d))
              = Cardinality(Pending(d)) - Cardinality(EdgesBetween(edges, n, d))
         /\ d \in Freed(n) <=> /\ Pending(d) # {}
                              /\ Pending(d) \ EdgesBetween(edges, n, d) = {}
<1> DEFINE E == EdgesBetween(edges, n, d)
           P == Pending(d)
<1>1. edges \in Seq(Edge) /\ n \notin Visited /\ inDegree[d] = Cardinality(P)
  BY DEF IndInv, TypeOK, Distinct, Degrees
<1>2. IsFiniteSet(EdgesInto(edges, d))
  BY <1>1, EdgeFacts
<1>3. P \subseteq EdgesInto(edges, d)
  BY DEF Pending
<1>4. E \subseteq P
  BY <1>1 DEF Pending, EdgesBetween, EdgesInto
<1>5. d \in Freed(n) <=> E # {} /\ Cardinality(P) = Cardinality(E)
  BY <1>1 DEF Freed
<1> HIDE DEF E, P
<1>6. IsFiniteSet(P)
  BY <1>2, <1>3, FS_Subset
<1>7. IsFiniteSet(E)
  BY <1>4, <1>6, FS_Subset
<1>8. Cardinality(P) \in Nat /\ Cardinality(E) \in Nat
  BY <1>6, <1>7, FS_CardinalityType
<1>9. P \cap E = E
  BY <1>4
<1>10. Cardinality(P \ E) = Cardinality(P) - Cardinality(E)
  BY <1>6, <1>9, FS_Difference
<1>11. Cardinality(P) = Cardinality(E) <=> P = E
  BY <1>4, <1>6, FS_Subset
<1>12. d \in Freed(n) <=> P # {} /\ P \ E = {}
  BY <1>4, <1>5, <1>11
<1> QED
  BY <1>4, <1>6, <1>8, <1>10, <1>12 DEF E, P

\* A job an iteration frees was neither queued nor visited.
LEMMA FreedIsNew ==
  ASSUME IndInv, NEW n \in Queued
  PROVE  Freed(n) \cap Known = {} /\ Freed(n) \subseteq Nodes(edges)
<1>1. Freed(n) \subseteq Nodes(edges)
  BY DEF Freed
<1>2. \A d \in Freed(n) : Pending(d) # {}
  BY <1>1, FreedFacts
<1> QED
  BY <1>1, <1>2 DEF IndInv, Frontier

\* What an iteration does to the order, the queue and the edges still pending.
LEMMA VisitFacts ==
  ASSUME IndInv, Visit
  PROVE  LET n == Head(queue) IN
         /\ n \in Queued /\ n \in Nodes(edges) /\ n \notin Visited
         /\ order' = Append(order, n)
         /\ Visited' = Visited \cup {n}
         /\ Queued' = (Queued \ {n}) \cup Freed(n)
         /\ queue' \in Seq(Nodes(edges))
         /\ \A k, l \in DOMAIN queue' : queue'[k] = queue'[l] => k = l
<1> DEFINE n == Head(queue)
           N == Nodes(edges)
           F == Freed(n)
           t == Tail(queue)
<1>1. /\ queue \in Seq(N) /\ queue # << >> /\ order \in Seq(N) /\ edges \in Seq(Edge)
      /\ \A k, l \in DOMAIN queue : queue[k] = queue[l] => k = l
      /\ Visited \cap Queued = {}
  BY DEF IndInv, TypeOK, Visit, Distinct
<1>2. PICK q \in FreedLists(n) : queue' = t \o q
  BY DEF Visit
<1>3. /\ Len(queue) \in Nat \ {0} /\ DOMAIN queue = 1 .. Len(queue)
      /\ n = queue[1]
  BY <1>1
<1>4. n \in Queued /\ n \in N /\ n \notin Visited
  BY <1>1, <1>3 DEF Queued
<1>5. IsFiniteSet(F) /\ F \subseteq N /\ F \cap Known = {}
  BY <1>1, <1>4, FreedIsNew, GraphFacts, FS_Subset
<1>6. /\ q \in Seq(F) /\ {q[k] : k \in DOMAIN q} = F
      /\ \A k, l \in DOMAIN q : q[k] = q[l] => k = l
  BY <1>2, <1>5, ListingFacts DEF FreedLists
<1>7. q \in Seq(N)
  BY <1>5, <1>6, SeqMonotonic
<1>8. order' = Append(order, n)
  BY DEF Visit
<1>9. Visited' = Visited \cup {n}
  <2>1. /\ Len(order) \in Nat /\ DOMAIN order = 1 .. Len(order)
        /\ DOMAIN order' = 1 .. Len(order) + 1
        /\ order'[Len(order) + 1] = n
        /\ \A k \in 1 .. Len(order) : order'[k] = order[k]
    BY <1>1, <1>4, <1>8
  <2>2. Visited' = {order'[k] : k \in 1 .. Len(order) + 1}
    BY <2>1 DEF Visited
  <2>3. Visited = {order[k] : k \in 1 .. Len(order)}
    BY <2>1 DEF Visited
  <2> HIDE DEF n
  <2>4. 1 .. Len(order) + 1 = (1 .. Len(order)) \cup {Len(order) + 1}
    BY <2>1
  <2> QED
    BY <2>1, <2>2, <2>3, <2>4
<1>10. /\ t \in Seq(N) /\ Len(t) = Len(queue) - 1
       /\ \A i \in 1 .. Len(t) : t[i] = queue[i + 1]
  BY <1>1, HeadTailProperties
<1> HIDE DEF n, N, F, t
<1>11. /\ queue' \in Seq(N) /\ Len(queue') = Len(t) + Len(q)
       /\ \A i \in 1 .. Len(t) + Len(q) :
            queue'[i] = IF i <= Len(t) THEN t[i] ELSE q[i - Len(t)]
  BY <1>2, <1>7, <1>10, ConcatProperties
<1>12. /\ Len(t) \in Nat /\ Len(q) \in Nat
       /\ DOMAIN q = 1 .. Len(q)
       /\ DOMAIN queue' = 1 .. Len(t) + Len(q)
  BY <1>7, <1>10, <1>11, LenProperties
<1>13. {t[i] : i \in 1 .. Len(t)} = Queued \ {n}
  <2>1. ASSUME NEW i \in 1 .. Len(t)
        PROVE  t[i] \in Queued \ {n}
    <3>1. i + 1 \in DOMAIN queue /\ i + 1 # 1 /\ 1 \in DOMAIN queue
      BY <1>3, <1>10
    <3>2. t[i] = queue[i + 1]
      BY <1>10
    <3>3. queue[i + 1] \in Queued
      BY <3>1 DEF Queued
    <3>4. queue[i + 1] # queue[1]
      BY <1>1, <3>1
    <3> QED
      BY <1>3, <3>2, <3>3, <3>4
  <2>2. ASSUME NEW x \in Queued \ {n}
        PROVE  \E i \in 1 .. Len(t) : t[i] = x
    <3>1. PICK k \in DOMAIN queue : queue[k] = x
      BY DEF Queued
    <3>2. k # 1
      BY <1>3, <3>1
    <3>3. k - 1 \in 1 .. Len(t) /\ (k - 1) + 1 = k
      BY <1>3, <1>10, <3>2
    <3> QED
      BY <1>10, <3>1, <3>3
  <2> QED
    BY <2>1, <2>2
<1>14. \A i, j \in 1 .. Len(t) : t[i] = t[j] => i = j
  <2> SUFFICES ASSUME NEW i \in 1 .. Len(t), NEW j \in 1 .. Len(t), t[i] = t[j]
               PROVE  i = j
    OBVIOUS
  <2>1. i + 1 \in DOMAIN queue /\ j + 1 \in DOMAIN queue
    BY <1>3, <1>10
  <2>2. i + 1 = j + 1
    BY <1>1, <1>10, <2>1
  <2> QED
    BY <1>12, <2>2
<1>15. Queued' = (Queued \ {n}) \cup F
  <2>1. Queued' = {queue'[k] : k \in 1 .. Len(t) + Len(q)}
    BY <1>12 DEF Queued
  <2>2. ASSUME NEW k \in 1 .. Len(t) + Len(q)
        PROVE  queue'[k] \in (Queued \ {n}) \cup F
    <3>1. CASE k <= Len(t)
      BY <1>11, <1>12, <1>13, <3>1
    <3>2. CASE k > Len(t)
      <4>1. k - Len(t) \in DOMAIN q /\ queue'[k] = q[k - Len(t)]
        BY <1>11, <1>12, <3>2
      <4> QED
        BY <1>6, <4>1
    <3> QED
      BY <1>12, <3>1, <3>2
  <2>3. ASSUME NEW x \in Queued \ {n}
        PROVE  \E k \in 1 .. Len(t) + Len(q) : queue'[k] = x
    <3>1. PICK i \in 1 .. Len(t) : t[i] = x
      BY <1>13
    <3>2. i \in 1 .. Len(t) + Len(q) /\ i <= Len(t)
      BY <1>12
    <3> QED
      BY <1>11, <3>1, <3>2
  <2>4. ASSUME NEW x \in F
        PROVE  \E k \in 1 .. Len(t) + Len(q) : queue'[k] = x
    <3>1. PICK i \in DOMAIN q : q[i] = x
      BY <1>6
    <3>2. /\ Len(t) + i \in 1 .. Len(t) + Len(q)
          /\ ~(Len(t) + i <= Len(t)) /\ (Len(t) + i) - Len(t) = i
      BY <1>12
    <3> QED
      BY <1>11, <3>1, <3>2
  <2> QED
    BY <2>1, <2>2, <2>3, <2>4
<1>16. \A k, l \in DOMAIN queue' : queue'[k] = queue'[l] => k = l
  <2>1. \A i \in 1 .. Len(t), j \in DOMAIN q : t[i] # q[j]
    BY <1>5, <1>6, <1>13 DEF Known
  <2> SUFFICES ASSUME NEW k \in 1 .. Len(t) + Len(q), NEW l \in 1 .. Len(t) + Len(q),
                      queue'[k] = queue'[l]
               PROVE  k = l
    BY <1>12
  <2>2. \A m \in 1 .. Len(t) + Len(q) :
          \/ m \in 1 .. Len(t) /\ queue'[m] = t[m]
          \/ m > Len(t) /\ m - Len(t) \in DOMAIN q /\ queue'[m] = q[m - Len(t)]
    BY <1>11, <1>12
  <2>3. CASE k \in 1 .. Len(t) /\ queue'[k] = t[k]
    BY <1>14, <2>1, <2>2, <2>3
  <2>4. CASE k > Len(t) /\ k - Len(t) \in DOMAIN q /\ queue'[k] = q[k - Len(t)]
    <3>1. l > Len(t) /\ l - Len(t) \in DOMAIN q /\ queue'[l] = q[l - Len(t)]
      BY <2>1, <2>2, <2>4
    <3>2. k - Len(t) = l - Len(t)
      BY <1>6, <2>4, <3>1
    <3> QED
      BY <1>12, <3>2
  <2> QED
    BY <2>2, <2>3, <2>4
<1> QED
  BY <1>4, <1>8, <1>9, <1>11, <1>15, <1>16 DEF n, N, F

\* The edges an iteration leaves pending are those it does not follow.
LEMMA PendingStep ==
  ASSUME IndInv, Visit, NEW d
  PROVE  Pending(d)' = Pending(d) \ EdgesBetween(edges, Head(queue), d)
<1>1. Visited' = Visited \cup {Head(queue)} /\ edges' = edges
  BY VisitFacts DEF Visit
<1> QED
  BY <1>1 DEF Pending, EdgesBetween, EdgesInto

\* An iteration keeps the types, the in-degrees and the one place of each job.
LEMMA VisitCounts ==
  ASSUME IndInv, Visit
  PROVE  TypeOK' /\ Degrees' /\ Distinct'
<1> DEFINE n == Head(queue)
<1>1. /\ TypeOK /\ Degrees /\ Distinct /\ edges' = edges /\ result' = result
      /\ inDegree' = [d \in DOMAIN inDegree |->
                        inDegree[d] - Cardinality(EdgesBetween(edges, n, d))]
  BY DEF IndInv, Visit
<1>2. /\ n \in Queued /\ n \in Nodes(edges) /\ n \notin Visited
      /\ order' = Append(order, n)
      /\ Visited' = Visited \cup {n}
      /\ Queued' = (Queued \ {n}) \cup Freed(n)
      /\ queue' \in Seq(Nodes(edges))
      /\ \A k, l \in DOMAIN queue' : queue'[k] = queue'[l] => k = l
  BY VisitFacts
<1>3. Freed(n) \cap Known = {}
  BY <1>2, FreedIsNew
<1>4. \A d : Pending(d)' = Pending(d) \ EdgesBetween(edges, n, d)
  BY PendingStep
<1>5. ASSUME NEW d \in Nodes(edges)
      PROVE  inDegree'[d] = Cardinality(Pending(d)') /\ inDegree'[d] \in Nat
  <2>1. IsFiniteSet(Pending(d) \ EdgesBetween(edges, n, d))
    BY <1>2, FreedFacts, FS_Subset
  <2>2. /\ inDegree[d] = Cardinality(Pending(d))
        /\ inDegree'[d] = inDegree[d] - Cardinality(EdgesBetween(edges, n, d))
    BY <1>1 DEF TypeOK, Degrees
  <2>3. inDegree'[d] = Cardinality(Pending(d) \ EdgesBetween(edges, n, d))
    BY <1>2, <2>2, FreedFacts
  <2> QED
    BY <1>4, <2>1, <2>3, FS_CardinalityType
<1> HIDE DEF n
<1>6. Degrees'
  BY <1>1, <1>5 DEF Degrees
<1>7. TypeOK'
  <2>1. order' \in Seq(Nodes(edges))
    BY <1>1, <1>2 DEF TypeOK
  <2>2. inDegree' \in [Nodes(edges) -> Nat]
    BY <1>1, <1>5 DEF TypeOK
  <2> QED
    BY <1>1, <1>2, <2>1, <2>2 DEF TypeOK
<1>8. Distinct'
  <2>1. \A k, l \in DOMAIN order' : order'[k] = order'[l] => k = l
    <3>1. /\ Len(order) \in Nat /\ DOMAIN order = 1 .. Len(order)
          /\ DOMAIN order' = 1 .. Len(order) + 1
          /\ order'[Len(order) + 1] = n
          /\ \A k \in 1 .. Len(order) : order'[k] = order[k]
      BY <1>1, <1>2 DEF TypeOK
    <3>2. \A k \in 1 .. Len(order) : order'[k] # n
      BY <1>2, <3>1 DEF Visited
    <3>3. \A k \in 1 .. Len(order) + 1 : k \in 1 .. Len(order) \/ k = Len(order) + 1
      BY <3>1
    <3> QED
      BY <1>1, <3>1, <3>2, <3>3 DEF Distinct
  <2>2. Visited' \cap Queued' = {}
    BY <1>1, <1>2, <1>3 DEF Distinct, Known
  <2> QED
    BY <1>2, <2>1, <2>2 DEF Distinct
<1> QED
  BY <1>6, <1>7, <1>8

\* An iteration keeps what the order says about the graph.
LEMMA VisitReaches ==
  ASSUME IndInv, Visit
  PROVE  Frontier' /\ Ordered' /\ Avoided' /\ Decided'
<1> DEFINE n == Head(queue)
<1>1. /\ TypeOK /\ Frontier /\ Ordered /\ Avoided /\ Distinct
      /\ edges' = edges /\ result' = result /\ result = "running"
  BY DEF IndInv, Visit
<1>2. /\ n \in Queued /\ n \in Nodes(edges)
      /\ order' = Append(order, n)
      /\ Visited' = Visited \cup {n}
      /\ Queued' = (Queued \ {n}) \cup Freed(n)
  BY VisitFacts
<1>3. Known' = Known \cup Freed(n)
  BY <1>2 DEF Known
<1>4. \A d : Pending(d)' = Pending(d) \ EdgesBetween(edges, n, d)
  BY PendingStep
<1>5. \A d \in Nodes(edges) :
        d \in Freed(n) <=> Pending(d) # {} /\ Pending(d)' = {}
  BY <1>2, <1>4, FreedFacts
<1> HIDE DEF n
<1>6. Frontier'
  <2> SUFFICES ASSUME NEW d \in Nodes(edges)
               PROVE  d \in Known' <=> Pending(d)' = {}
    BY <1>1 DEF Frontier
  <2>1. d \in Known <=> Pending(d) = {}
    BY <1>1 DEF Frontier
  <2>2. Pending(d) = {} => Pending(d)' = {}
    BY <1>4
  <2> QED
    BY <1>3, <1>5, <2>1, <2>2
<1>7. Ordered'
  <2>1. /\ Len(order) \in Nat /\ DOMAIN order = 1 .. Len(order)
        /\ DOMAIN order' = 1 .. Len(order) + 1
        /\ order'[Len(order) + 1] = n
        /\ \A k \in 1 .. Len(order) : order'[k] = order[k]
    BY <1>1, <1>2 DEF TypeOK
  <2> SUFFICES ASSUME NEW k \in 1 .. Len(order) + 1, NEW i \in EdgesInto(edges, order'[k])
               PROVE  \E l \in 1 .. Len(order) + 1 : l < k /\ order'[l] = edges[i].up
    BY <1>1, <2>1 DEF Ordered
  <2>2. CASE k \in 1 .. Len(order)
    <3>1. PICK l \in 1 .. Len(order) : l < k /\ order[l] = edges[i].up
      BY <1>1, <2>1, <2>2 DEF Ordered
    <3>2. l \in 1 .. Len(order) + 1 /\ order'[l] = order[l]
      BY <2>1
    <3> QED
      BY <3>1, <3>2
  <2>3. CASE k = Len(order) + 1
    <3>1. Pending(n) = {} /\ i \in EdgesInto(edges, n)
      BY <1>1, <1>2, <2>1, <2>3 DEF Frontier, Known
    <3>2. edges[i].up \in Visited
      BY <3>1 DEF Pending
    <3>3. PICK l \in 1 .. Len(order) : order[l] = edges[i].up
      BY <2>1, <3>2 DEF Visited
    <3>4. l \in 1 .. Len(order) + 1 /\ l < k /\ order'[l] = order[l]
      BY <2>1, <2>3
    <3> QED
      BY <3>3, <3>4
  <2> QED
    BY <2>1, <2>2, <2>3
<1>8. Avoided'
  <2> SUFFICES ASSUME NEW S \in SUBSET Nodes(edges), Knot(S), NEW d \in S, d \in Known'
               PROVE  FALSE
    BY <1>1 DEF Avoided, Knot
  <2>1. S \cap Known = {}
    BY <1>1 DEF Avoided
  <2>2. d \in Freed(n)
    BY <1>3, <2>1
  <2>3. PICK i \in EdgesInto(edges, d) : edges[i].up \in S
    BY DEF Knot
  <2>4. i \in Pending(d)
    BY <2>1, <2>3 DEF Pending, Known
  <2>5. i \in EdgesBetween(edges, n, d)
    BY <1>4, <1>5, <2>2, <2>4
  <2> QED
    BY <1>2, <2>1, <2>3, <2>5 DEF EdgesBetween, Known
<1>9. Decided'
  BY <1>1 DEF Decided
<1> QED
  BY <1>6, <1>7, <1>8, <1>9

\* A step that leaves the graph, the order and the queue alone.
LEMMA QuietStep ==
  ASSUME IndInv, UNCHANGED <<edges, inDegree, queue, order>>,
         result' \in {"running", "sorted", "cycle"}, Decided'
  PROVE  IndInv'
<1>1. Visited' = Visited /\ Queued' = Queued
  BY DEF Visited, Queued
<1>2. \A d : Pending(d)' = Pending(d)
  BY <1>1 DEF Pending
<1>3. Known' = Known
  BY <1>1 DEF Known
<1>4. TypeOK'
  BY DEF IndInv, TypeOK
<1>5. Degrees' /\ Frontier'
  BY <1>2, <1>3 DEF IndInv, Degrees, Frontier
<1>6. Distinct' /\ Ordered'
  BY <1>1 DEF IndInv, Distinct, Ordered
<1>7. Avoided'
  BY <1>3 DEF IndInv, Avoided, Knot
<1> QED
  BY <1>4, <1>5, <1>6, <1>7 DEF IndInv

LEMMA StepInd == IndInv /\ [Next]_vars => IndInv'
<1> SUFFICES ASSUME IndInv, [Next]_vars
             PROVE  IndInv'
  OBVIOUS
<1>1. CASE Visit
  BY <1>1, VisitCounts, VisitReaches DEF IndInv
<1>2. CASE Finish
  <2>1. Decided'
    BY <1>2 DEF Finish, Decided
  <2> QED
    BY <1>2, <2>1, QuietStep DEF Finish
<1>3. CASE UNCHANGED vars
  <2>1. Decided' /\ result' \in {"running", "sorted", "cycle"}
    BY <1>3 DEF IndInv, TypeOK, Decided, vars
  <2> QED
    BY <1>3, <2>1, QuietStep DEF vars
<1> QED
  BY <1>1, <1>2, <1>3 DEF Next

LEMMA Inductive == Spec => []IndInv
  BY InitInd, StepInd, PTL DEF Spec

--------------------------------------------------------------------------------
(* The results.                                                            *)

\* The order has as many entries as the pipeline has jobs exactly when it has them all.
LEMMA CountDecides ==
  ASSUME IndInv
  PROVE  Len(order) = Cardinality(Nodes(edges)) <=> Visited = Nodes(edges)
<1> DEFINE N == Nodes(edges)
           D == 1 .. Len(order)
<1>1. order \in Seq(N) /\ edges \in Seq(Edge)
  BY DEF IndInv, TypeOK
<1>2. Len(order) \in Nat /\ DOMAIN order = D /\ order \in [D -> N]
  BY <1>1, LenProperties
<1>3. order \in Injection(D, N)
  BY <1>2 DEF IndInv, Distinct, Injection, IsInjective
<1>4. IsFiniteSet(N)
  BY <1>1, GraphFacts
<1>5. Cardinality(D) = Len(order)
  BY <1>2, FS_Interval
<1>6. Visited = {order[k] : k \in D} /\ Visited \subseteq N
  BY <1>2 DEF Visited
<1> HIDE DEF D, N
<1>7. Cardinality(D) = Cardinality(N) <=> order \in Surjection(D, N)
  BY <1>3, <1>4, FS_Injection
<1>8. order \in Surjection(D, N) <=> Visited = N
  BY <1>2, <1>6 DEF Surjection
<1> QED
  BY <1>5, <1>7, <1>8 DEF N

\* The types of the loop's variables: in particular no in-degree is ever negative.
THEOREM TypeCorrect == Spec => []TypeOK
  BY Inductive, PTL DEF IndInv

\* An order that topological_sort returns holds every job of the pipeline once,
\* each after everything upstream of it, whatever the edges and however many.
THEOREM SortCorrect == Spec => []SortedIsTopological
<1>1. IndInv => SortedIsTopological
  <2> SUFFICES ASSUME IndInv, result = "sorted"
               PROVE  IsTopological(order, edges)
    BY DEF SortedIsTopological
  <2>1. Visited = Nodes(edges)
    BY CountDecides DEF IndInv, Decided
  <2>2. \A d \in Nodes(edges) : \E k \in DOMAIN order : order[k] = d
    BY <2>1 DEF Visited
  <2>3. \A k \in DOMAIN order : order[k] \in Nodes(edges)
    BY <2>1 DEF Visited
  <2> QED
    BY <2>2, <2>3 DEF IndInv, Distinct, Ordered, IsTopological
<1> QED
  BY <1>1, Inductive, PTL

\* topological_sort raises its ValueError for every pipeline in which some jobs
\* wait for each other, and for no other.
THEOREM CycleDetected == Spec => []ErrorIsCycle
<1>1. ASSUME IndInv, result = "cycle"
      PROVE  Cyclic(edges)
  <2> DEFINE S == Nodes(edges) \ Visited
  <2>1. Queued = {} /\ Visited # Nodes(edges)
    BY <1>1, CountDecides DEF IndInv, Decided, Queued
  <2>2. Visited \subseteq Nodes(edges) /\ edges \in Seq(Edge)
    BY <1>1 DEF IndInv, TypeOK, Visited
  <2>3. S # {}
    BY <2>1, <2>2
  <2>4. ASSUME NEW d \in S
        PROVE  \E i \in EdgesInto(edges, d) : edges[i].up \in S
    <3>1. d \in Nodes(edges) /\ d \notin Known
      BY <2>1 DEF Known
    <3>2. PICK i \in EdgesInto(edges, d) : edges[i].up \notin Visited
      BY <1>1, <3>1 DEF IndInv, Frontier, Pending
    <3>3. edges[i].up \in Nodes(edges)
      BY <2>2, GraphFacts DEF EdgesInto
    <3> QED
      BY <3>2, <3>3
  <2> QED
    BY <2>3, <2>4 DEF Cyclic
<1>2. ASSUME IndInv, result = "sorted"
      PROVE  ~Cyclic(edges)
  <2>1. Visited = Nodes(edges)
    BY <1>2, CountDecides DEF IndInv, Decided
  <2>2. \A S \in SUBSET Nodes(edges) : Knot(S) => S = {}
    BY <1>2, <2>1 DEF IndInv, Avoided, Known
  <2> QED
    BY <2>2 DEF Cyclic, Knot
<1> QED
  BY <1>1, <1>2, Inductive, PTL DEF ErrorIsCycle
================================================================================
